---- MODULE Spec2Model ----
(***************************************************************************)
(* Verification model of bonjour-for-cpp.                                  *)
(*                                                                         *)
(*   Spec      - one session object (a bonjour_service: bonjour_base plus  *)
(*               the resolver's reply handler), the caller thread using    *)
(*               it, the self-deleting bonjour_thread workers it spawns    *)
(*               and the discovery facility.  A step is one lock-delimited *)
(*               section of the code.                                      *)
(*   SpecFair  - Spec with strong fairness on the steps of every thread    *)
(*               inside an operation (entering one is never forced).       *)
(*   SpecPeer  - a bonjour_peer: the discovered list of its bonjour_browse *)
(*               under browse replies, and the reconciliation loop of      *)
(*               list_peers, one step per loop iteration.                  *)
(***************************************************************************)
EXTENDS Integers, Sequences, FiniteSets, TLC

(* ---------------------------------------------------------------------- *)
(* Bounds                                                                  *)
(* ---------------------------------------------------------------------- *)
\* handles the facility hands out (successful primitive calls) in one run
MaxHandles == 2
\* replies the facility delivers in one run, over all handles
MaxReplies == 2
\* replies the facility delivers where two workers compete for the handler
MaxOrdered == 3
\* calls of resolve() that one peer's session is followed through
MaxResolves == 2
\* the longest list searched by bonjour_named::find
MaxList == 2
\* notifications of a browser that are kept for observation
NotesKept == 2

Workers == 1..MaxHandles
\* the caller thread; worker w runs as thread w
Users == {101}
Threads == Users \cup Workers
ReplyCodes == {"ok", "err"}

VARIABLES
    \* ---- bonjour_base / bonjour_service --------------------------------
    m_thread,   \* bonjour_base::m_thread: 0 is nullptr, else the worker
    m_mutex,    \* owner of bonjour_base::m_mutex (0: free)
    obj,        \* lifetime of the session object: "raw" (storage only),
                \* "alive", "dtor", "dead"
    built,      \* the constructor that made it: "no", "named", "empty", "copy"
    bstart,     \* m_thread when the last bonjour_browse::start() was entered
    hasStop,    \* m_notify.m_stop is registered
    m_fields,   \* bonjour_service m_fullname / m_host / m_port
    rflags,     \* per worker: the flags of the reply its handler is running
    \* ---- bonjour_thread (one per handle) --------------------------------
    m_invalid,  \* bonjour_thread::m_invalid
    m_error,    \* bonjour_thread::m_error
    handle,     \* the DNSServiceRef of the worker and what happened to it
    nworkers,   \* handles created so far
    budget,     \* replies the facility may still deliver
    \* ---- threads --------------------------------------------------------
    pc,         \* call stack of every thread, innermost frame first
    ptr,        \* the bonjour_thread* a thread loaded in stop()
    call,       \* per caller: what its current spawn() did
    ret,        \* per caller: last value returned by spawn() / active()
    got,        \* per caller: what fullname(), host(), port() returned
    copy,       \* a second bonjour_service, made as a copy of the session
    \* ---- observation ----------------------------------------------------
    notes,      \* notifications raised so far, by kind
    errSeen,    \* an error reply was delivered since the last start
    crashed,    \* the process died on an invalid access
    \* ---- bonjour_peer / bonjour_browse ----------------------------------
    m_services,     \* bonjour_browse::m_services
    m_peers,        \* bonjour_peer::m_peers
    self_discover,  \* bonjour_peer_options::m_self_discover
    services,       \* list_peers: the local list 'services'
    it,             \* list_peers: cursor into m_peers (first loop)
    kt,             \* list_peers: cursor into services (second loop)
    lp,             \* list_peers: position of the caller
    peers_out,      \* the caller's list, assigned by list_peers
    P0,             \* m_peers when the running list_peers was entered
    S0,             \* the snapshot the last list_peers took
    again,          \* how that snapshot compares with the one before it
    breply,         \* bonjour_browse::reply: arguments of the last reply
    bnotes,         \* bonjour_browse: the last notifications raised
    mode,           \* bonjour_peer_options::m_mode
    m_register_active,  \* bonjour_peer::m_register is active
    m_browse_active,    \* bonjour_peer::m_browse is active
    spc,            \* bonjour_peer::start / stop: position of the caller
    sret,           \* bonjour_peer::start: the value it returns
    rres,           \* what m_register.start() returned to this start()
    bres,           \* what m_browse.start() returned to this start()
    psess,          \* the resolver session of each element of m_peers
    rcall,          \* bonjour_peer::resolve(service): the last call
    m_this,         \* bonjour_peer::m_this_service: session, m_host, the
                    \* host of the first reply handled, the progress of
                    \* the constructor and the calls of the primitive
    rhost,          \* what the last resolved_host() returned
    rnote,          \* bonjour_register::reply: its last reply and notification
    nm              \* bonjour_named objects built from C strings, a list
                    \* of them, and what equal and find returned

sessVars == <<m_thread, m_mutex, obj, hasStop, m_fields, rflags, m_invalid,
              m_error, handle, nworkers, budget, pc, ptr, call, ret, got,
              notes, errSeen, copy, built, bstart, crashed>>

\* the session's variables other than crashed, which both parts share
sessOnly == <<m_thread, m_mutex, obj, hasStop, m_fields, rflags, m_invalid,
              m_error, handle, nworkers, budget, pc, ptr, call, ret, got,
              notes, errSeen, copy, built, bstart>>

peerVars == <<m_services, m_peers, self_discover, services, it, kt, lp,
              peers_out, P0, S0, again, breply, bnotes, mode,
              m_register_active, m_browse_active, spc, sret, rres, bres,
              psess, rcall, m_this, rhost, rnote, nm>>

vars == <<sessVars, peerVars>>

(* ---------------------------------------------------------------------- *)
(* Helpers                                                                 *)
(* ---------------------------------------------------------------------- *)
NoFields == [fullname |-> 0, host |-> 0, port |-> 0]
NoHandle == [state |-> "none", deallocs |-> 0, by |-> 0, late |-> FALSE]
\* nothing read yet: no accessor has returned
Unread == [fullname |-> -1, host |-> -1, port |-> -1]
\* no copy of the session exists
NoCopy == [made |-> FALSE, m_thread |-> 0, fields |-> NoFields,
           last |-> "none"]
NoCall == [entry |-> 0, prim |-> "none", nprim |-> 0, nw0 |-> 0]

Top(t) == IF pc[t] = <<>> THEN "idle" ELSE Head(pc[t])
\* replace the innermost frame of t by the frames fs
Goto(t, fs) == [pc EXCEPT ![t] = fs \o Tail(pc[t])]
Return(t) == [pc EXCEPT ![t] = Tail(pc[t])]

\* the worker holds its own bonjour_thread::m_mutex from the check of
\* m_invalid to the end of the loop body, i.e. while it processes results
InLoopBody(w) == pc[w] # <<>> /\ pc[w][Len(pc[w])] = "proc"
Born(w) == w \in Workers /\ w <= nworkers
Gone(w) == pc[w] = <<"gone">>
Live(w) == Born(w) /\ ~Gone(w)
CanLock(t) == m_mutex \in {0, t}

(* ---------------------------------------------------------------------- *)
(* Initial state: a constructed, idle session                              *)
(* ---------------------------------------------------------------------- *)
\* a session in lifetime state o for which the facility holds n replies;
\* a constructed session is idle, as after the constructor with an empty
\* name
SessInitWith(o, n) ==
    /\ m_thread = 0
    /\ m_mutex = 0
    /\ obj = o
    /\ built = (IF o = "raw" THEN "no" ELSE "empty")
    /\ bstart = -1
    /\ hasStop \in BOOLEAN
    /\ m_fields = NoFields
    /\ m_invalid = [w \in Workers |-> FALSE]
    /\ m_error = [w \in Workers |-> FALSE]
    /\ handle = [w \in Workers |-> NoHandle]
    /\ nworkers = 0
    /\ budget = n
    /\ pc = [t \in Threads |-> <<>>]
    /\ ptr = [t \in Threads |-> 0]
    /\ call = [u \in Users |-> NoCall]
    /\ ret = [u \in Users |-> FALSE]
    /\ got = [u \in Users |-> Unread]
    /\ rflags = [w \in Workers |-> "none"]
    /\ notes = [stop |-> 0, resolve |-> 0, complete |-> "none"]
    /\ errSeen = FALSE
    /\ copy = NoCopy
    /\ crashed = FALSE

SessInit == SessInitWith("alive", MaxReplies)

(* ---------------------------------------------------------------------- *)
(* bonjour_base::stop, one step per lock section                           *)
(* ---------------------------------------------------------------------- *)
\* faulty variant of stop(): the active() test is missing
StopChkAlways(t) ==
    /\ ~crashed
    /\ Top(t) = "stop_chk"
    /\ CanLock(t)
    /\ pc' = Goto(t, <<"stop_load">>)
    /\ UNCHANGED <<m_thread, m_mutex, obj, hasStop, m_fields, rflags,
                   m_invalid, m_error, handle, nworkers, budget, ptr, call,
                   ret, got, notes, errSeen, copy, built, bstart, crashed,
                   peerVars>>

\* if (active()): active() takes and releases m_mutex
StopChk(t) ==
    /\ ~crashed
    /\ Top(t) = "stop_chk"
    /\ CanLock(t)
    /\ pc' = IF m_thread # 0 THEN Goto(t, <<"stop_load">>) ELSE Return(t)
    /\ UNCHANGED <<m_thread, m_mutex, obj, hasStop, m_fields, rflags,
                   m_invalid, m_error, handle, nworkers, budget, ptr, call,
                   ret, got, notes, errSeen, copy, built, bstart, crashed,
                   peerVars>>

\* m_thread->stop(): the pointer is read without the session lock
StopLoad(t) ==
    /\ ~crashed
    /\ Top(t) = "stop_load"
    /\ ptr' = [ptr EXCEPT ![t] = m_thread]
    /\ pc' = Goto(t, <<"stop_sig">>)
    /\ UNCHANGED <<m_thread, m_mutex, obj, hasStop, m_fields, rflags,
                   m_invalid, m_error, handle, nworkers, budget, call, ret,
                   got, notes, errSeen, copy, built, bstart, crashed,
                   peerVars>>

\* faulty variant of bonjour_thread::stop: the session side also
\* deallocates the worker's handle when it signals the worker
ThreadStopDealloc(t) ==
    /\ ~crashed
    /\ Top(t) = "stop_sig"
    /\ Live(ptr[t])
    /\ (ptr[t] = t \/ ~InLoopBody(ptr[t]))
    /\ m_invalid' = [m_invalid EXCEPT ![ptr[t]] = TRUE]
    /\ handle' = [handle EXCEPT ![ptr[t]].state = "closed",
                                ![ptr[t]].deallocs = @ + 1,
                                ![ptr[t]].by = t]
    /\ ptr' = [ptr EXCEPT ![t] = 0]
    /\ pc' = Goto(t, <<"stop_clr">>)
    /\ UNCHANGED <<m_thread, m_mutex, obj, hasStop, m_fields, rflags,
                   m_error, nworkers, budget, call, ret, got, notes, errSeen,
                   copy, built, bstart, crashed, peerVars>>

\* bonjour_thread::stop: lock the worker's mutex, set m_invalid
ThreadStop(t) ==
    /\ ~crashed
    /\ Top(t) = "stop_sig"
    /\ Live(ptr[t])
    /\ (ptr[t] = t \/ ~InLoopBody(ptr[t]))
    /\ m_invalid' = [m_invalid EXCEPT ![ptr[t]] = TRUE]
    /\ ptr' = [ptr EXCEPT ![t] = 0]
    /\ pc' = Goto(t, <<"stop_clr">>)
    /\ UNCHANGED <<m_thread, m_mutex, obj, hasStop, m_fields, rflags,
                   m_error, handle, nworkers, budget, call, ret, got, notes,
                   errSeen, copy, built, bstart, crashed, peerVars>>

\* m_thread->stop() through a null pointer, or through a pointer to a
\* worker that has deleted itself: the process dies, or (dangling pointer
\* only) the write lands in freed memory and nothing else happens
ThreadStopInvalid(t) ==
    /\ ~crashed
    /\ Top(t) = "stop_sig"
    /\ ~Live(ptr[t])
    /\ \/ /\ crashed' = TRUE
          /\ UNCHANGED <<pc, ptr>>
       \/ /\ ptr[t] # 0
          /\ crashed' = crashed
          /\ ptr' = [ptr EXCEPT ![t] = 0]
          /\ pc' = Goto(t, <<"stop_clr">>)
    /\ UNCHANGED <<m_thread, m_mutex, obj, hasStop, m_fields, rflags,
                   m_invalid, m_error, handle, nworkers, budget, call, ret,
                   got, notes, errSeen, copy, built, bstart, peerVars>>

\* mutex_lock lock(m_mutex); m_thread = nullptr;
StopClr(t) ==
    /\ ~crashed
    /\ Top(t) = "stop_clr"
    /\ CanLock(t)
    /\ m_thread' = 0
    /\ pc' = Return(t)
    /\ UNCHANGED <<m_mutex, obj, hasStop, m_fields, rflags, m_invalid,
                   m_error, handle, nworkers, budget, ptr, call, ret, got,
                   notes, errSeen, copy, built, bstart, crashed, peerVars>>

(* ---------------------------------------------------------------------- *)
(* bonjour_base::spawn (bonjour_service::resolve)                          *)
(* ---------------------------------------------------------------------- *)
\* mutex_lock lock(m_mutex);
SpawnLock(u) ==
    /\ ~crashed
    /\ Top(u) = "spawn_lock"
    /\ m_mutex = 0
    /\ m_mutex' = u
    /\ call' = [call EXCEPT ![u] = [entry |-> m_thread, prim |-> "none",
                                    nprim |-> 0, nw0 |-> nworkers]]
    /\ pc' = Goto(u, <<"spawn_body">>)
    /\ UNCHANGED <<m_thread, obj, hasStop, m_fields, rflags, m_invalid,
                   m_error, handle, nworkers, budget, ptr, ret, got, notes,
                   errSeen, copy, built, bstart, crashed, peerVars>>

\* faulty variant of spawn on an active session: the active() test is
\* missing, the primitive is called again and a second worker is started
SpawnActiveRestart(u) ==
    /\ ~crashed
    /\ Top(u) = "spawn_body"
    /\ m_thread # 0
    /\ nworkers < MaxHandles
    /\ LET w == nworkers + 1 IN
        /\ nworkers' = w
        /\ m_thread' = w
        /\ handle' = [handle EXCEPT ![w].state = "open"]
        /\ pc' = [Goto(u, <<"spawn_ret">>) EXCEPT ![w] = <<"wait">>]
    /\ call' = [call EXCEPT ![u].prim = "ok", ![u].nprim = @ + 1]
    /\ errSeen' = FALSE
    /\ UNCHANGED <<m_mutex, obj, hasStop, m_fields, rflags, m_invalid,
                   m_error, budget, ptr, ret, got, notes, copy, built,
                   bstart, crashed, peerVars>>

\* if (!active()) is false: nothing to do
SpawnActive(u) ==
    /\ ~crashed
    /\ Top(u) = "spawn_body"
    /\ m_thread # 0
    /\ pc' = Goto(u, <<"spawn_ret">>)
    /\ UNCHANGED <<m_thread, m_mutex, obj, hasStop, m_fields, rflags,
                   m_invalid, m_error, handle, nworkers, budget, ptr, call,
                   ret, got, notes, errSeen, copy, built, bstart, crashed,
                   peerVars>>

\* faulty variant of a successful spawn: it does not test active() first
SpawnStartedUnchecked(u) ==
    /\ ~crashed
    /\ Top(u) = "spawn_body"
    /\ nworkers < MaxHandles
    /\ LET w == nworkers + 1 IN
        /\ nworkers' = w
        /\ m_thread' = w
        /\ handle' = [handle EXCEPT ![w].state = "open"]
        /\ pc' = [Goto(u, <<"spawn_ret">>) EXCEPT ![w] = <<"wait">>]
    /\ call' = [call EXCEPT ![u].prim = "ok", ![u].nprim = @ + 1]
    /\ errSeen' = FALSE
    /\ UNCHANGED <<m_mutex, obj, hasStop, m_fields, rflags, m_invalid,
                   m_error, budget, ptr, ret, got, notes, copy, built,
                   bstart, crashed, peerVars>>

\* T::service(...) returns kDNSServiceErr_NoError:
\* m_thread = bonjour_thread::start_service(sd_ref)
SpawnStarted(u) ==
    /\ ~crashed
    /\ Top(u) = "spawn_body"
    /\ m_thread = 0
    /\ nworkers < MaxHandles
    /\ LET w == nworkers + 1 IN
        /\ nworkers' = w
        /\ m_thread' = w
        /\ handle' = [handle EXCEPT ![w].state = "open"]
        /\ pc' = [Goto(u, <<"spawn_ret">>) EXCEPT ![w] = <<"wait">>]
    /\ call' = [call EXCEPT ![u].prim = "ok", ![u].nprim = @ + 1]
    /\ errSeen' = FALSE
    /\ UNCHANGED <<m_mutex, obj, hasStop, m_fields, rflags, m_invalid,
                   m_error, budget, ptr, ret, got, notes, copy, built,
                   bstart, crashed, peerVars>>

\* faulty variant of a failed spawn: the primitive is called a second time
\* and the session is started with the handle of the second call
SpawnFailedRetry(u) ==
    /\ ~crashed
    /\ Top(u) = "spawn_body"
    /\ m_thread = 0
    /\ nworkers < MaxHandles
    /\ LET w == nworkers + 1 IN
        /\ nworkers' = w
        /\ m_thread' = w
        /\ handle' = [handle EXCEPT ![w].state = "open"]
        /\ pc' = [Goto(u, <<"spawn_ret">>) EXCEPT ![w] = <<"wait">>]
    /\ call' = [call EXCEPT ![u].prim = "fail", ![u].nprim = @ + 2]
    /\ errSeen' = FALSE
    /\ UNCHANGED <<m_mutex, obj, hasStop, m_fields, rflags, m_invalid,
                   m_error, budget, ptr, ret, got, notes, copy, built,
                   bstart, crashed, peerVars>>

\* T::service(...) returns an error: stop()
SpawnFailed(u) ==
    /\ ~crashed
    /\ Top(u) = "spawn_body"
    /\ m_thread = 0
    /\ call' = [call EXCEPT ![u].prim = "fail", ![u].nprim = @ + 1]
    /\ pc' = Goto(u, <<"stop_chk", "spawn_ret">>)
    /\ UNCHANGED <<m_thread, m_mutex, obj, hasStop, m_fields, rflags,
                   m_invalid, m_error, handle, nworkers, budget, ptr, ret,
                   got, notes, errSeen, copy, built, bstart, crashed,
                   peerVars>>

\* return active(); and the lock guard releases m_mutex
SpawnRet(u) ==
    /\ ~crashed
    /\ Top(u) = "spawn_ret"
    /\ ret' = [ret EXCEPT ![u] = (m_thread # 0)]
    /\ call' = [call EXCEPT ![u] = NoCall]
    /\ m_mutex' = 0
    /\ pc' = Return(u)
    /\ UNCHANGED <<m_thread, obj, hasStop, m_fields, rflags, m_invalid,
                   m_error, handle, nworkers, budget, ptr, got, notes,
                   errSeen, copy, built, bstart, crashed, peerVars>>

(* ---------------------------------------------------------------------- *)
(* bonjour_thread::loop                                                    *)
(* ---------------------------------------------------------------------- *)
\* what an operation on the handle does to its record
UseHandle(w) == [handle EXCEPT ![w].late = (@ \/ handle[w].state # "open")]

\* wait_on_socket returns (any rc); m_invalid is set: exit = true, then
\* DNSServiceRefDeallocate(m_sd_ref); delete this; (the bonjour_thread and
\* its flags no longer exist)
WorkerExit(w) ==
    /\ ~crashed
    /\ pc[w] = <<"wait">>
    /\ m_invalid[w]
    /\ handle' = [UseHandle(w) EXCEPT ![w].state = "closed",
                                      ![w].deallocs = @ + 1,
                                      ![w].by = w]
    /\ m_invalid' = [m_invalid EXCEPT ![w] = FALSE]
    /\ m_error' = [m_error EXCEPT ![w] = FALSE]
    /\ pc' = [pc EXCEPT ![w] = <<"gone">>]
    /\ UNCHANGED <<m_thread, m_mutex, obj, hasStop, m_fields, rflags,
                   nworkers, budget, ptr, call, ret, got, notes, errSeen,
                   copy, built, bstart, crashed, peerVars>>

\* faulty variant of the loop: a failed wait makes the session idle
WorkerWaitErrorIdles(w) ==
    /\ ~crashed
    /\ pc[w] = <<"wait">>
    /\ ~m_invalid[w]
    /\ m_error' = [m_error EXCEPT ![w] = TRUE]
    /\ handle' = UseHandle(w)
    /\ m_thread' = IF m_thread = w THEN 0 ELSE m_thread
    /\ UNCHANGED <<m_mutex, obj, hasStop, m_fields, rflags, m_invalid,
                   nworkers, budget, pc, ptr, call, ret, got, notes, errSeen,
                   copy, built, bstart, crashed, peerVars>>

\* rc < 0 (select failed) and not m_invalid: m_error = true; loop again
WorkerWaitError(w) ==
    /\ ~crashed
    /\ pc[w] = <<"wait">>
    /\ ~m_invalid[w]
    /\ m_error' = [m_error EXCEPT ![w] = TRUE]
    /\ handle' = UseHandle(w)
    /\ UNCHANGED <<m_thread, m_mutex, obj, hasStop, m_fields, rflags,
                   m_invalid, nworkers, budget, pc, ptr, call, ret, got,
                   notes, errSeen, copy, built, bstart, crashed, peerVars>>

\* rc == 0 and not m_invalid: the one second slice elapsed; loop again
WorkerTimeout(w) ==
    /\ ~crashed
    /\ pc[w] = <<"wait">>
    /\ ~m_invalid[w]
    /\ handle' = UseHandle(w)
    /\ UNCHANGED <<m_thread, m_mutex, obj, hasStop, m_fields, rflags,
                   m_invalid, m_error, nworkers, budget, pc, ptr, call, ret,
                   got, notes, errSeen, copy, built, bstart, crashed,
                   peerVars>>

\* faulty variant of the loop: the pending activity is processed although
\* m_invalid is set
WorkerProcessAnyway(w) ==
    /\ ~crashed
    /\ pc[w] = <<"wait">>
    /\ handle' = UseHandle(w)
    /\ pc' = [pc EXCEPT ![w] = <<"proc">>]
    /\ UNCHANGED <<m_thread, m_mutex, obj, hasStop, m_fields, rflags,
                   m_invalid, m_error, nworkers, budget, ptr, call, ret, got,
                   notes, errSeen, copy, built, bstart, crashed, peerVars>>

\* rc > 0 and not m_invalid: DNSServiceProcessResult(m_sd_ref) is entered
WorkerProcess(w) ==
    /\ ~crashed
    /\ pc[w] = <<"wait">>
    /\ ~m_invalid[w]
    /\ handle' = UseHandle(w)
    /\ pc' = [pc EXCEPT ![w] = <<"proc">>]
    /\ UNCHANGED <<m_thread, m_mutex, obj, hasStop, m_fields, rflags,
                   m_invalid, m_error, nworkers, budget, ptr, call, ret, got,
                   notes, errSeen, copy, built, bstart, crashed, peerVars>>

\* faulty variant of callback_type::reply: on an error code the stop
\* notification is raised before the session is stopped
AdapterReplyNotifyFirst(w) ==
    /\ ~crashed
    /\ pc[w] = <<"proc">>
    /\ budget > 0
    /\ budget' = budget - 1
    /\ \E code \in ReplyCodes :
        IF code = "ok"
          THEN /\ pc' = [pc EXCEPT ![w] = <<"reply_lock">> \o @]
               /\ errSeen' = errSeen
          ELSE /\ pc' = [pc EXCEPT ![w] = <<"notify_stop", "stop_chk">> \o @]
               /\ errSeen' = TRUE
    /\ UNCHANGED <<m_thread, m_mutex, obj, hasStop, m_fields, rflags,
                   m_invalid, m_error, handle, nworkers, ptr, call, ret, got,
                   notes, copy, built, bstart, crashed, peerVars>>

\* inside DNSServiceProcessResult the facility delivers one more reply to
\* callback_type::reply: no error -> lock the object and call its reply();
\* error -> obj->stop_notify(obj->m_notify.m_stop, obj)
AdapterReply(w) ==
    /\ ~crashed
    /\ pc[w] = <<"proc">>
    /\ budget > 0
    /\ budget' = budget - 1
    /\ \E code \in ReplyCodes :
        IF code = "ok"
          THEN /\ pc' = [pc EXCEPT ![w] = <<"reply_lock">> \o @]
               /\ errSeen' = errSeen
          ELSE /\ pc' = [pc EXCEPT ![w] = <<"stop_chk", "notify_stop">> \o @]
               /\ errSeen' = TRUE
    /\ UNCHANGED <<m_thread, m_mutex, obj, hasStop, m_fields, rflags,
                   m_invalid, m_error, handle, nworkers, ptr, call, ret, got,
                   notes, copy, built, bstart, crashed, peerVars>>

\* the context pointer of a reply designates an object that was destroyed
AdapterReplyInvalid(w) ==
    /\ ~crashed
    /\ pc[w] = <<"proc">>
    /\ budget > 0
    /\ obj = "dead"
    /\ crashed' = TRUE
    /\ UNCHANGED <<m_thread, m_mutex, obj, hasStop, m_fields, rflags,
                   m_invalid, m_error, handle, nworkers, budget, pc, ptr,
                   call, ret, got, notes, errSeen, copy, built, bstart,
                   peerVars>>

\* DNSServiceProcessResult returns its status; != kDNSServiceErr_NoError
\* sets m_error; the lock guard of the loop body is released
WorkerProcessed(w) ==
    /\ ~crashed
    /\ pc[w] = <<"proc">>
    /\ \E st \in ReplyCodes :
        m_error' = [m_error EXCEPT ![w] = (@ \/ st = "err")]
    /\ pc' = [pc EXCEPT ![w] = <<"wait">>]
    /\ UNCHANGED <<m_thread, m_mutex, obj, hasStop, m_fields, rflags,
                   m_invalid, handle, nworkers, budget, ptr, call, ret, got,
                   notes, errSeen, copy, built, bstart, crashed, peerVars>>

(* ---------------------------------------------------------------------- *)
(* callback_type::reply and bonjour_service::reply                         *)
(* ---------------------------------------------------------------------- *)
\* faulty variant of callback_type::reply: the typed handler is called
\* without the session's lock
ReplyLockNone(w) ==
    /\ ~crashed
    /\ Top(w) = "reply_lock"
    /\ pc' = Goto(w, <<"reply_body">>)
    /\ UNCHANGED <<m_thread, m_mutex, obj, hasStop, m_fields, rflags,
                   m_invalid, m_error, handle, nworkers, budget, ptr, call,
                   ret, got, notes, errSeen, copy, built, bstart, crashed,
                   peerVars>>

\* faulty variant of callback_type::reply: the session's lock is taken
\* over from the thread that holds it
ReplyLockSteal(w) ==
    /\ ~crashed
    /\ Top(w) = "reply_lock"
    /\ m_mutex' = w
    /\ pc' = Goto(w, <<"reply_body">>)
    /\ UNCHANGED <<m_thread, obj, hasStop, m_fields, rflags, m_invalid,
                   m_error, handle, nworkers, budget, ptr, call, ret, got,
                   notes, errSeen, copy, built, bstart, crashed, peerVars>>

\* mutex_lock lock(obj->m_mutex);
ReplyLock(w) ==
    /\ ~crashed
    /\ Top(w) = "reply_lock"
    /\ m_mutex = 0
    /\ m_mutex' = w
    /\ pc' = Goto(w, <<"reply_body">>)
    /\ UNCHANGED <<m_thread, obj, hasStop, m_fields, rflags, m_invalid,
                   m_error, handle, nworkers, budget, ptr, call, ret, got,
                   notes, errSeen, copy, built, bstart, crashed, peerVars>>

\* faulty variant of bonjour_service::reply: the call of stop() is missing
ServiceReplyNoStop(w) ==
    /\ ~crashed
    /\ Top(w) = "reply_body"
    /\ \E more \in BOOLEAN :
         rflags' = [rflags EXCEPT ![w] = IF more THEN "more" ELSE "last"]
    /\ m_fields' = [fullname |-> w, host |-> w, port |-> w]
    /\ pc' = Goto(w, <<"reply_end">>)
    /\ UNCHANGED <<m_thread, m_mutex, obj, hasStop, m_invalid, m_error,
                   handle, nworkers, budget, ptr, call, ret, got, notes,
                   errSeen, copy, built, bstart, crashed, peerVars>>

\* bonjour_service::reply(flags, fullname, host, port), the flags with or
\* without kDNSServiceFlagsMoreComing: m_fullname, m_host, m_port = ...;
\* stop();
ServiceReply(w) ==
    /\ ~crashed
    /\ Top(w) = "reply_body"
    /\ \E more \in BOOLEAN :
         rflags' = [rflags EXCEPT ![w] = IF more THEN "more" ELSE "last"]
    /\ m_fields' = [fullname |-> w, host |-> w, port |-> w]
    /\ pc' = Goto(w, <<"stop_chk", "reply_end">>)
    /\ UNCHANGED <<m_thread, m_mutex, obj, hasStop, m_invalid, m_error,
                   handle, nworkers, budget, ptr, call, ret, got, notes,
                   errSeen, copy, built, bstart, crashed, peerVars>>

\* notify(m_notify.m_resolve, this, fullname, host, port, complete) with
\* complete = (flags & kDNSServiceFlagsMoreComing) == 0; the adapter's lock
\* guard is released
ServiceReplyEnd(w) ==
    /\ ~crashed
    /\ Top(w) = "reply_end"
    /\ notes' = [notes EXCEPT !.resolve = @ + 1,
                              !.complete = IF rflags[w] = "more"
                                             THEN "no" ELSE "yes"]
    /\ rflags' = [rflags EXCEPT ![w] = "none"]
    /\ m_mutex' = 0
    /\ pc' = Return(w)
    /\ UNCHANGED <<m_thread, obj, hasStop, m_fields, m_invalid, m_error,
                   handle, nworkers, budget, ptr, call, ret, got, errSeen,
                   copy, built, bstart, crashed, peerVars>>

\* stop_notify: after stop(), notify(m_notify.m_stop, obj)
NotifyStop(t) ==
    /\ ~crashed
    /\ Top(t) = "notify_stop"
    /\ notes' = [notes EXCEPT !.stop = IF hasStop THEN @ + 1 ELSE @]
    /\ pc' = Return(t)
    /\ UNCHANGED <<m_thread, m_mutex, obj, hasStop, m_fields, rflags,
                   m_invalid, m_error, handle, nworkers, budget, ptr, call,
                   ret, got, errSeen, copy, built, bstart, crashed, peerVars>>

(* ---------------------------------------------------------------------- *)
(* bonjour_service::operator=, ~bonjour_base, bonjour_base::active         *)
(* ---------------------------------------------------------------------- *)
\* mutex_lock lock1(m_mutex); mutex_lock lock2(rhs.m_mutex); stop();
AssignLock(u) ==
    /\ ~crashed
    /\ Top(u) = "asg_lock"
    /\ m_mutex = 0
    /\ m_mutex' = u
    /\ pc' = Goto(u, <<"stop_chk", "asg_copy">>)
    /\ UNCHANGED <<m_thread, obj, hasStop, m_fields, rflags, m_invalid,
                   m_error, handle, nworkers, budget, ptr, call, ret, got,
                   notes, errSeen, copy, built, bstart, crashed, peerVars>>

\* the bonjour_named part and m_fullname, m_host, m_port, m_notify are
\* copied from rhs (an unresolved service); both lock guards are released
AssignCopy(u) ==
    /\ ~crashed
    /\ Top(u) = "asg_copy"
    /\ m_fields' = NoFields
    /\ m_mutex' = 0
    /\ pc' = Return(u)
    /\ UNCHANGED <<m_thread, obj, hasStop, rflags, m_invalid, m_error,
                   handle, nworkers, budget, ptr, call, ret, got, notes,
                   errSeen, copy, built, bstart, crashed, peerVars>>

\* ~bonjour_base has run stop(); the object is gone
DtorEnd(u) ==
    /\ ~crashed
    /\ Top(u) = "dtor_end"
    /\ obj' = "dead"
    /\ pc' = Return(u)
    /\ UNCHANGED <<m_thread, m_mutex, hasStop, m_fields, rflags, m_invalid,
                   m_error, handle, nworkers, budget, ptr, call, ret, got,
                   notes, errSeen, copy, built, bstart, crashed, peerVars>>

\* bool active() const { mutex_lock lock(m_mutex); return m_thread; }
Active(u) ==
    /\ ~crashed
    /\ Top(u) = "active"
    /\ CanLock(u)
    /\ ret' = [ret EXCEPT ![u] = (m_thread # 0)]
    /\ pc' = Return(u)
    /\ UNCHANGED <<m_thread, m_mutex, obj, hasStop, m_fields, rflags,
                   m_invalid, m_error, handle, nworkers, budget, ptr, call,
                   got, notes, errSeen, copy, built, bstart, crashed,
                   peerVars>>

(* ---------------------------------------------------------------------- *)
(* bonjour_service::fullname, host, port                                   *)
(* ---------------------------------------------------------------------- *)
\* mutex_lock lock(m_mutex); std::string str(m_fullname); return str;
ReadFullname(u) ==
    /\ ~crashed
    /\ Top(u) = "rd_fullname"
    /\ CanLock(u)
    /\ got' = [got EXCEPT ![u].fullname = m_fields.fullname]
    /\ pc' = Goto(u, <<"rd_host">>)
    /\ UNCHANGED <<m_thread, m_mutex, obj, hasStop, m_fields, rflags,
                   m_invalid, m_error, handle, nworkers, budget, ptr, call,
                   ret, notes, errSeen, copy, built, bstart, crashed,
                   peerVars>>

\* mutex_lock lock(m_mutex); std::string str(m_host); return str;
ReadHost(u) ==
    /\ ~crashed
    /\ Top(u) = "rd_host"
    /\ CanLock(u)
    /\ got' = [got EXCEPT ![u].host = m_fields.host]
    /\ pc' = Goto(u, <<"rd_port">>)
    /\ UNCHANGED <<m_thread, m_mutex, obj, hasStop, m_fields, rflags,
                   m_invalid, m_error, handle, nworkers, budget, ptr, call,
                   ret, notes, errSeen, copy, built, bstart, crashed,
                   peerVars>>

\* mutex_lock lock(m_mutex); uint16_t port = m_port; return port;
ReadPort(u) ==
    /\ ~crashed
    /\ Top(u) = "rd_port"
    /\ CanLock(u)
    /\ got' = [got EXCEPT ![u].port = m_fields.port]
    /\ pc' = Return(u)
    /\ UNCHANGED <<m_thread, m_mutex, obj, hasStop, m_fields, rflags,
                   m_invalid, m_error, handle, nworkers, budget, ptr, call,
                   ret, notes, errSeen, copy, built, bstart, crashed,
                   peerVars>>

(* ---------------------------------------------------------------------- *)
(* The caller                                                              *)
(* ---------------------------------------------------------------------- *)
\* a caller thread enters one of the public operations of the object
Enter(u, frames) ==
    /\ ~crashed
    /\ obj = "alive"
    /\ pc[u] = <<>>
    /\ pc' = [pc EXCEPT ![u] = frames]
    /\ UNCHANGED <<m_thread, m_mutex, obj, hasStop, m_fields, rflags,
                   m_invalid, m_error, handle, nworkers, budget, ptr, call,
                   ret, got, notes, errSeen, copy, built, bstart, crashed,
                   peerVars>>

CallStart(u) == Enter(u, <<"spawn_lock">>)
CallStop(u) == Enter(u, <<"stop_chk">>)
CallActive(u) == Enter(u, <<"active">>)
CallAssign(u) == Enter(u, <<"asg_lock">>)

\* the caller reads the resolved service: fullname(), host(), port()
CallRead(u) ==
    /\ ~crashed
    /\ obj = "alive"
    /\ pc[u] = <<>>
    /\ got' = [got EXCEPT ![u] = Unread]
    /\ pc' = [pc EXCEPT ![u] = <<"rd_fullname">>]
    /\ UNCHANGED <<m_thread, m_mutex, obj, hasStop, m_fields, rflags,
                   m_invalid, m_error, handle, nworkers, budget, ptr, call,
                   ret, notes, errSeen, copy, built, bstart, crashed,
                   peerVars>>

\* the owner destroys the object: ~bonjour_base() { stop(); }
CallDestroy(u) ==
    /\ ~crashed
    /\ obj = "alive"
    /\ \A v \in Users : pc[v] = <<>>
    /\ obj' = "dtor"
    /\ pc' = [pc EXCEPT ![u] = <<"stop_chk", "dtor_end">>]
    /\ UNCHANGED <<m_thread, m_mutex, hasStop, m_fields, rflags, m_invalid,
                   m_error, handle, nworkers, budget, ptr, call, ret, got,
                   notes, errSeen, copy, built, bstart, crashed, peerVars>>

(* ---------------------------------------------------------------------- *)
(* Specification of the session                                            *)
(* ---------------------------------------------------------------------- *)
WorkerStep(w) ==
    \/ WorkerExit(w)
    \/ WorkerWaitError(w)
    \/ WorkerTimeout(w)
    \/ WorkerProcess(w)
    \/ AdapterReply(w)
    \/ AdapterReplyInvalid(w)
    \/ WorkerProcessed(w)
    \/ ReplyLock(w)
    \/ ServiceReply(w)
    \/ ServiceReplyEnd(w)
    \/ NotifyStop(w)

StopStep(t) ==
    \/ StopChk(t)
    \/ StopLoad(t)
    \/ ThreadStop(t)
    \/ ThreadStopInvalid(t)
    \/ StopClr(t)

\* a caller enters an operation
CallStep(u) ==
    \/ CallStart(u)
    \/ CallStop(u)
    \/ CallActive(u)
    \/ CallAssign(u)
    \/ CallDestroy(u)

\* a caller goes on inside the operation it entered
BodyStep(u) ==
    \/ SpawnLock(u)
    \/ SpawnActive(u)
    \/ SpawnStarted(u)
    \/ SpawnFailed(u)
    \/ SpawnRet(u)
    \/ AssignLock(u)
    \/ AssignCopy(u)
    \/ DtorEnd(u)
    \/ Active(u)

(* ---------------------------------------------------------------------- *)
(* bonjour_named: identities, equal, find                                  *)
(* ---------------------------------------------------------------------- *)
Names == {"a", "b", "c"}
RegTypes == {"_test._tcp"}
Domains == {"local."}
Identities == [name : Names, regtype : RegTypes, domain : Domains]

\* m_register: the identity the peer registers
Own == [name |-> "a", regtype |-> "_test._tcp", domain |-> "local."]

\* three services of the registration type and domain
IdA == [name |-> "a", regtype |-> "_test._tcp", domain |-> "local."]
IdB == [name |-> "b", regtype |-> "_test._tcp", domain |-> "local."]
IdC == [name |-> "c", regtype |-> "_test._tcp", domain |-> "local."]

\* no browse reply was handled yet
NoReply == [add |-> FALSE,
            id |-> [name |-> "", regtype |-> "", domain |-> ""],
            seq |-> 0]

\* bonjour_named::equal: strcmp on name, regtype and domain
Equal(x, y) ==
    /\ x.name = y.name
    /\ x.regtype = y.regtype
    /\ x.domain = y.domain

\* bonjour_named::find: position of the first element of list that equals
\* x, or Len(list) + 1 for list.end()
Find(x, list) ==
    IF \E i \in 1..Len(list) : Equal(list[i], x)
      THEN CHOOSE i \in 1..Len(list) :
             /\ Equal(list[i], x)
             /\ \A j \in 1..(i - 1) : ~Equal(list[j], x)
      ELSE Len(list) + 1

\* std::list::erase of the element at position i
Erase(list, i) == [j \in 1..(Len(list) - 1) |->
                     IF j < i THEN list[j] ELSE list[j + 1]]

\* m_peers.emplace_back(named): a bonjour_service built from the identity
MakePeer(x) == [id |-> x]

\* the session of a bonjour_service built from an identity with a name:
\* its constructor has called resolve() once
NewSession(ok) == [active |-> ok, resolves |-> 1, host |-> 0]

\* bonjour_peer_options::modes
Modes == {"browse_only", "register_only", "both"}

\* no call of resolve(service) was made yet
NoResolve == [arg |-> [name |-> "", regtype |-> "", domain |-> ""],
              seq |-> 0]

\* the advertiser has handled no reply yet
NoNote == [flags |-> 0, id |-> [name |-> "", regtype |-> "", domain |-> ""],
           kind |-> "none", told |-> [name |-> "", regtype |-> "",
                                      domain |-> ""],
           complete |-> FALSE, count |-> 0, seq |-> 0]

(* ---------------------------------------------------------------------- *)
(* bonjour_named on C strings: validate_*, the constructor, equal, find    *)
(* ---------------------------------------------------------------------- *)
\* strings are sequences of character codes; a C string ends with NUL
Nul == <<0>>
\* the null pointer passed as a const char *
NullPtr == <<-1>>
\* "local."
LocalDot == <<108, 111, 99, 97, 108, 46>>
\* "Local."
LocalCap == <<76, 111, 99, 97, 108, 46>>

\* the strings passed as name ("a", "A"), as regtype ("t", "T") and as
\* domain (null, "", "local.", "Local.")
NameArgs == {<<97>>, <<65>>}
RegtypeArgs == {<<116>>, <<84>>}
DomainArgs == {NullPtr, <<>>, LocalDot, LocalCap}

\* std::string::c_str(): the characters followed by NUL
CStr(s) == s \o Nul

\* strlen(c): the number of characters before the first NUL
RECURSIVE StrLen(_)
StrLen(c) == IF Head(c) = 0 THEN 0 ELSE 1 + StrLen(Tail(c))

\* std::string(const char *): the characters before the first NUL
RECURSIVE FromC(_)
FromC(c) == IF Head(c) = 0 THEN <<>> ELSE <<Head(c)>> \o FromC(Tail(c))

\* strcmp(a, b): the difference of the first pair of unequal characters,
\* 0 when both strings end together
RECURSIVE StrCmp(_, _)
StrCmp(a, b) ==
    IF Head(a) # Head(b) THEN Head(a) - Head(b)
    ELSE IF Head(a) = 0 THEN 0
    ELSE StrCmp(Tail(a), Tail(b))

\* impl::validate_name, impl::validate_regtype: return name; return regtype;
ValidateName(name) == FromC(name)
ValidateRegtype(regtype) == FromC(regtype)

\* faulty variant of impl::validate_domain: no default for an empty or
\* null domain
ValidateDomainVerbatim(domain) ==
    IF domain = NullPtr THEN <<>> ELSE FromC(domain)

\* impl::validate_domain:
\* return (!domain || !strlen(domain)) ? "local." : domain;
ValidateDomain(domain) ==
    IF domain = NullPtr \/ StrLen(domain) = 0
      THEN FromC(CStr(LocalDot))
      ELSE FromC(domain)

\* what a const char * argument points to
AsArg(s) == IF s = NullPtr THEN NullPtr ELSE CStr(s)

\* bonjour_named(name, regtype, domain): bonjour_base(regtype, domain),
\* m_name(impl::validate_name(name))
Construct(name, regtype, domain) ==
    [name |-> ValidateName(AsArg(name)),
     regtype |-> ValidateRegtype(AsArg(regtype)),
     domain |-> ValidateDomain(AsArg(domain))]

\* faulty variant of equal(const char *, const char *): letters are
\* compared without their case
EqualStrNoCase(a, b) ==
    LET Low(c) == [i \in 1..Len(c) |->
                     IF c[i] >= 65 /\ c[i] <= 90 THEN c[i] + 32 ELSE c[i]]
    IN  StrCmp(Low(a), Low(b)) = 0

\* bonjour_named::equal(const char *a, const char *b): !strcmp(a, b)
EqualStr(a, b) == StrCmp(a, b) = 0

\* bonjour_named::equal(b): name(), regtype() and domain() are c_str()
EqualNamed(x, y) ==
    /\ EqualStr(CStr(x.name), CStr(y.name))
    /\ EqualStr(CStr(x.regtype), CStr(y.regtype))
    /\ EqualStr(CStr(x.domain), CStr(y.domain))

\* the loop of bonjour_named::find from position i on: the first element
\* for which it->equal(*this), or Len(list) + 1 for list.end()
RECURSIVE FindFrom(_, _, _)
FindFrom(x, list, i) ==
    IF i > Len(list) THEN Len(list) + 1
    ELSE IF EqualNamed(list[i], x) THEN i
    ELSE FindFrom(x, list, i + 1)

\* bonjour_named::find(list)
FindNamed(x, list) == FindFrom(x, list, 1)

\* no argument was passed yet
NoArgs == [name |-> <<>>, regtype |-> <<>>, domain |-> <<>>]

\* two objects built from empty strings, an empty list, no call made
NoNamed ==
    [a |-> Construct(<<>>, <<>>, <<>>), b |-> Construct(<<>>, <<>>, <<>>),
     arga |-> NoArgs, argb |-> NoArgs, list |-> <<>>,
     eq |-> "none", qe |-> "none", pos |-> -1]

\* a coordinator whose browser holds S and whose peers are P with the
\* resolver sessions A
PeerInitWith(S, P, A) ==
    /\ m_services = S
    /\ m_peers = P
    /\ psess = A
    /\ rcall = NoResolve
    /\ rnote = NoNote
    /\ nm = NoNamed
    /\ self_discover \in BOOLEAN
    /\ services = <<>>
    /\ it = 1
    /\ kt = 1
    /\ lp = "idle"
    /\ peers_out = <<>>
    /\ P0 = <<>>
    /\ S0 = <<>>
    /\ again = "never"
    /\ breply = NoReply
    /\ bnotes = <<>>
    /\ mode \in Modes
    /\ m_register_active = FALSE
    /\ m_browse_active = FALSE
    /\ spc = "idle"
    /\ sret = "none"
    /\ rres = "none"
    /\ bres = "none"

\* m_this_service with no session and an empty m_host
SelfIdle ==
    [active |-> FALSE, open |-> FALSE, host |-> 0, first |-> 0,
     ctor |-> 2, tries |-> 0]

\* the self resolver is left out: idle, resolved_host() never called
SelfInit ==
    /\ m_this = SelfIdle
    /\ rhost = -1

PeerInit == PeerInitWith(<<>>, <<>>, <<>>) /\ SelfInit

(* ---------------------------------------------------------------------- *)
(* bonjour_browse::reply, bonjour_browse::clear                            *)
(* ---------------------------------------------------------------------- *)
\* the notifications kept for observation: the last NotesKept ones
Noted(log, kind) ==
    LET all == Append(log, kind) IN
      IF Len(all) > NotesKept THEN Tail(all) ELSE all

\* the list after reply(flags, name, regtype, domain): named.find, then
\* push_back when the add flag is set and the identity is not found, erase
\* when the flag is clear and it is found
Replied(add, x, list) ==
    LET jt == Find(x, list) IN
      IF add
        THEN IF jt = Len(list) + 1 THEN Append(list, x) ELSE list
        ELSE IF jt # Len(list) + 1 THEN Erase(list, jt) ELSE list

\* faulty variant of bonjour_browse::reply: an add reply appends without
\* looking the identity up
BrowseReplyAppend(add, x) ==
    /\ ~crashed
    /\ m_services' = IF add /\ Len(m_services) < Cardinality(Names)
                       THEN Append(m_services, x)
                       ELSE Replied(add, x, m_services)
    /\ breply' = [add |-> add, id |-> x, seq |-> 1 - breply.seq]
    /\ bnotes' = Noted(bnotes, IF add THEN "added" ELSE "removed")
    /\ UNCHANGED <<m_peers, self_discover, services, it, kt, lp, peers_out,
                   P0, S0, again, mode, m_register_active, m_browse_active,
                   spc, sret, rres, bres, psess, rcall, m_this, rhost, rnote,
                   nm, crashed, sessOnly>>

\* faulty variant of bonjour_browse::reply: the notification is raised only
\* when the reply changed the list
BrowseReplyQuiet(add, x) ==
    /\ ~crashed
    /\ m_services' = Replied(add, x, m_services)
    /\ breply' = [add |-> add, id |-> x, seq |-> 1 - breply.seq]
    /\ bnotes' = IF m_services' = m_services THEN bnotes
                 ELSE Noted(bnotes, IF add THEN "added" ELSE "removed")
    /\ UNCHANGED <<m_peers, self_discover, services, it, kt, lp, peers_out,
                   P0, S0, again, mode, m_register_active, m_browse_active,
                   spc, sret, rres, bres, psess, rcall, m_this, rhost, rnote,
                   nm, crashed, sessOnly>>

\* reply(flags, name, regtype, domain) with kDNSServiceFlagsAdd set (add)
\* or clear, run under the browser's lock; notify(m_notify.m_add, ...) or
\* notify(m_notify.m_remove, ...) ends both branches
BrowseReply(add, x) ==
    /\ ~crashed
    /\ m_services' = Replied(add, x, m_services)
    /\ breply' = [add |-> add, id |-> x, seq |-> 1 - breply.seq]
    /\ bnotes' = Noted(bnotes, IF add THEN "added" ELSE "removed")
    /\ UNCHANGED <<m_peers, self_discover, services, it, kt, lp, peers_out,
                   P0, S0, again, mode, m_register_active, m_browse_active,
                   spc, sret, rres, bres, psess, rcall, m_this, rhost, rnote,
                   nm, crashed, sessOnly>>

\* clear(): m_services.clear() under the browser's lock
BrowseClear ==
    /\ ~crashed
    /\ m_services' = <<>>
    /\ UNCHANGED <<m_peers, self_discover, services, it, kt, lp, peers_out,
                   P0, S0, again, breply, bnotes, mode, m_register_active,
                   m_browse_active, spc, sret, rres, bres, psess, rcall,
                   m_this, rhost, rnote, nm, crashed, sessOnly>>

(* ---------------------------------------------------------------------- *)
(* bonjour_peer::list_peers                                                *)
(* ---------------------------------------------------------------------- *)
\* lock m_mutex; m_browse.list_services(services); it = m_peers.begin()
ListPeersEnter ==
    /\ ~crashed
    /\ lp = "idle"
    /\ services' = m_services
    /\ S0' = m_services
    /\ again' = IF again = "never" THEN "first"
                 ELSE IF m_services = S0 THEN "same" ELSE "changed"
    /\ P0' = m_peers
    /\ it' = 1
    /\ lp' = "scan"
    /\ UNCHANGED <<m_services, m_peers, self_discover, kt, peers_out, breply,
                   bnotes, mode, m_register_active, m_browse_active, spc,
                   sret, rres, bres, psess, rcall, m_this, rhost, rnote, nm,
                   crashed, sessOnly>>

\* faulty variant of the first loop: a match is not taken out of services
ListPeersScanKeep ==
    /\ ~crashed
    /\ lp = "scan"
    /\ it # Len(m_peers) + 1
    /\ LET jt == Find(m_peers[it].id, services) IN
         IF jt = Len(services) + 1
           THEN /\ m_peers' = Erase(m_peers, it)
                /\ psess' = Erase(psess, it)
                /\ it > 1
                /\ it' = it - 1
           ELSE /\ m_peers' = m_peers
                /\ psess' = psess
                /\ it' = it
    /\ lp' = "inc"
    /\ UNCHANGED <<m_services, self_discover, services, kt, peers_out, P0,
                   S0, again, breply, bnotes, mode, m_register_active,
                   m_browse_active, spc, sret, rres, bres, rcall, m_this,
                   rhost, rnote, nm, crashed, sessOnly>>

\* faulty variant of the first loop: a peer that is found is resolved again
ListPeersScanResolves ==
    /\ ~crashed
    /\ lp = "scan"
    /\ it # Len(m_peers) + 1
    /\ LET jt == Find(m_peers[it].id, services) IN
         IF jt = Len(services) + 1
           THEN /\ m_peers' = Erase(m_peers, it)
                /\ psess' = Erase(psess, it)
                /\ services' = services
                /\ it > 1
                /\ it' = it - 1
           ELSE /\ m_peers' = m_peers
                /\ psess' = [psess EXCEPT ![it].active = TRUE,
                                           ![it].resolves = @ + 1]
                /\ services' = Erase(services, jt)
                /\ it' = it
    /\ lp' = "inc"
    /\ UNCHANGED <<m_services, self_discover, kt, peers_out, P0, S0, again,
                   breply, bnotes, mode, m_register_active, m_browse_active,
                   spc, sret, rres, bres, rcall, m_this, rhost, rnote, nm,
                   crashed, sessOnly>>

\* first loop, body: jt = it->find(services); not found: the peer is
\* erased and the cursor steps back; found: the match is taken out of
\* services
ListPeersScan ==
    /\ ~crashed
    /\ lp = "scan"
    /\ it # Len(m_peers) + 1
    /\ LET jt == Find(m_peers[it].id, services) IN
         IF jt = Len(services) + 1
           THEN /\ m_peers' = Erase(m_peers, it)
                /\ psess' = Erase(psess, it)
                /\ services' = services
                /\ it > 1
                /\ it' = it - 1
           ELSE /\ m_peers' = m_peers
                /\ psess' = psess
                /\ services' = Erase(services, jt)
                /\ it' = it
    /\ lp' = "inc"
    /\ UNCHANGED <<m_services, self_discover, kt, peers_out, P0, S0, again,
                   breply, bnotes, mode, m_register_active, m_browse_active,
                   spc, sret, rres, bres, rcall, m_this, rhost, rnote, nm,
                   crashed, sessOnly>>

\* first loop, body, when the erased peer was the first one: erase returns
\* begin() and decrementing begin() is undefined.  A list with a sentinel
\* node wraps to the sentinel (position 0, from where it++ gives begin());
\* a checked iterator aborts the process.
ListPeersScanFirst ==
    /\ ~crashed
    /\ lp = "scan"
    /\ it = 1
    /\ it # Len(m_peers) + 1
    /\ Find(m_peers[it].id, services) = Len(services) + 1
    /\ m_peers' = Erase(m_peers, it)
    /\ psess' = Erase(psess, it)
    /\ \/ /\ it' = 0
          /\ lp' = "inc"
          /\ crashed' = crashed
       \/ /\ crashed' = TRUE
          /\ UNCHANGED <<it, lp>>
    /\ UNCHANGED <<m_services, self_discover, services, kt, peers_out, P0,
                   S0, again, breply, bnotes, mode, m_register_active,
                   m_browse_active, spc, sret, rres, bres, rcall, m_this,
                   rhost, rnote, nm, sessOnly>>

\* first loop: it++
ListPeersInc ==
    /\ ~crashed
    /\ lp = "inc"
    /\ it' = it + 1
    /\ lp' = "scan"
    /\ UNCHANGED <<m_services, m_peers, self_discover, services, kt,
                   peers_out, P0, S0, again, breply, bnotes, mode,
                   m_register_active, m_browse_active, spc, sret, rres, bres,
                   psess, rcall, m_this, rhost, rnote, nm, crashed, sessOnly>>

\* first loop ends (it == m_peers.end()); second loop: it = services.begin()
ListPeersScanEnd ==
    /\ ~crashed
    /\ lp = "scan"
    /\ it = Len(m_peers) + 1
    /\ kt' = 1
    /\ lp' = "add"
    /\ UNCHANGED <<m_services, m_peers, self_discover, services, it,
                   peers_out, P0, S0, again, breply, bnotes, mode,
                   m_register_active, m_browse_active, spc, sret, rres, bres,
                   psess, rcall, m_this, rhost, rnote, nm, crashed, sessOnly>>

\* faulty variant of the second loop: the test against m_register is missing
ListPeersAddAny(ok) ==
    /\ ~crashed
    /\ lp = "add"
    /\ kt # Len(services) + 1
    /\ m_peers' = Append(m_peers, MakePeer(services[kt]))
    /\ psess' = Append(psess, NewSession(ok))
    /\ kt' = kt + 1
    /\ UNCHANGED <<m_services, self_discover, services, it, lp, peers_out,
                   P0, S0, again, breply, bnotes, mode, m_register_active,
                   m_browse_active, spc, sret, rres, bres, rcall, m_this,
                   rhost, rnote, nm, crashed, sessOnly>>

\* second loop, one iteration:
\* if (m_self_discover || !it->equal(m_register)) m_peers.emplace_back(*it)
\* the constructor of the new element calls resolve(), whose primitive
\* succeeds (ok) or fails
ListPeersAdd(ok) ==
    /\ ~crashed
    /\ lp = "add"
    /\ kt # Len(services) + 1
    /\ IF self_discover \/ ~Equal(services[kt], Own)
         THEN /\ m_peers' = Append(m_peers, MakePeer(services[kt]))
              /\ psess' = Append(psess, NewSession(ok))
         ELSE /\ m_peers' = m_peers
              /\ psess' = psess
    /\ kt' = kt + 1
    /\ UNCHANGED <<m_services, self_discover, services, it, lp, peers_out,
                   P0, S0, again, breply, bnotes, mode, m_register_active,
                   m_browse_active, spc, sret, rres, bres, rcall, m_this,
                   rhost, rnote, nm, crashed, sessOnly>>

\* second loop ends: what remains is peers = m_peers
ListPeersAddEnd ==
    /\ ~crashed
    /\ lp = "add"
    /\ kt = Len(services) + 1
    /\ lp' = "copy"
    /\ UNCHANGED <<m_services, m_peers, self_discover, services, it, kt,
                   peers_out, P0, S0, again, breply, bnotes, mode,
                   m_register_active, m_browse_active, spc, sret, rres, bres,
                   psess, rcall, m_this, rhost, rnote, nm, crashed, sessOnly>>

\* peers = m_peers; the locals go out of scope and m_mutex is released
ListPeersReturn ==
    /\ ~crashed
    /\ lp = "copy"
    /\ peers_out' = m_peers
    /\ services' = <<>>
    /\ it' = 1
    /\ kt' = 1
    /\ P0' = <<>>
    /\ lp' = "idle"
    /\ UNCHANGED <<m_services, m_peers, self_discover, S0, again, breply,
                   bnotes, mode, m_register_active, m_browse_active, spc,
                   sret, rres, bres, psess, rcall, m_this, rhost, rnote, nm,
                   crashed, sessOnly>>

(* ---------------------------------------------------------------------- *)
(* Specifications                                                          *)
(* ---------------------------------------------------------------------- *)
\* the session alone: the peer part stays as constructed
Init ==
    /\ SessInit
    /\ PeerInit
    /\ self_discover = FALSE
    /\ mode = "both"

Next ==
    \/ \E u \in Users : CallStep(u)
    \/ \E u \in Users : BodyStep(u)
    \/ \E t \in Threads : StopStep(t)
    \/ \E w \in Workers : WorkerStep(w)

Spec == Init /\ [][Next]_vars

\* fair scheduling: a thread that can run again and again does run, and a
\* thread waiting for a mutex that is released again and again gets it
SpecFair ==
    /\ Spec
    /\ \A w \in Workers : SF_vars(WorkerStep(w) \/ StopStep(w))
    /\ \A u \in Users : SF_vars(BodyStep(u) \/ StopStep(u))

\* a resolver that is started, stopped and read (never assigned to or
\* destroyed)
NextRead ==
    \/ \E u \in Users : CallStart(u) \/ CallStop(u) \/ CallRead(u)
    \/ \E u \in Users : ReadFullname(u) \/ ReadHost(u) \/ ReadPort(u)
    \/ \E u \in Users : SpawnLock(u) \/ SpawnActive(u) \/ SpawnStarted(u)
    \/ \E u \in Users : SpawnFailed(u) \/ SpawnRet(u)
    \/ \E t \in Threads : StopStep(t)
    \/ \E w \in Workers : WorkerExit(w) \/ WorkerWaitError(w)
    \/ \E w \in Workers : WorkerTimeout(w) \/ WorkerProcess(w)
    \/ \E w \in Workers : AdapterReply(w) \/ WorkerProcessed(w)
    \/ \E w \in Workers : ReplyLock(w) \/ ServiceReply(w)
    \/ \E w \in Workers : ServiceReplyEnd(w) \/ NotifyStop(w)

SpecRead == Init /\ [][NextRead]_vars

\* the peer alone: its own sessions stay as constructed, and the resolution
\* of every new peer starts
InitPeer ==
    /\ PeerInit
    /\ SessInit
    /\ hasStop = FALSE
    /\ mode = "both"

NextPeer ==
    \/ \E add \in BOOLEAN, x \in Identities : BrowseReply(add, x)
    \/ BrowseClear
    \/ ListPeersEnter
    \/ ListPeersScan
    \/ ListPeersScanFirst
    \/ ListPeersInc
    \/ ListPeersScanEnd
    \/ ListPeersAdd(TRUE)
    \/ ListPeersAddEnd
    \/ ListPeersReturn


SpecPeer == InitPeer /\ [][NextPeer]_vars

(* ---------------------------------------------------------------------- *)
(* bonjour_browse as a session: start() and reply() on the worker         *)
(* ---------------------------------------------------------------------- *)
\* faulty variant of bonjour_browse::start(): the list is cleared only
\* when the session is idle
CallBrowseStartLazy(u) ==
    /\ ~crashed
    /\ obj = "alive"
    /\ pc[u] = <<>>
    /\ bstart' = m_thread
    /\ pc' = [pc EXCEPT ![u] = IF m_thread # 0 THEN <<"spawn_lock">>
                                ELSE <<"clear", "spawn_lock">>]
    /\ UNCHANGED <<m_thread, m_mutex, obj, hasStop, m_fields, rflags,
                   m_invalid, m_error, handle, nworkers, budget, ptr, call,
                   ret, got, notes, errSeen, copy, built, crashed, peerVars>>

\* bonjour_browse::start(): clear(); return spawn(...); the state of the
\* session at the entry of the call is kept for observation
CallBrowseStart(u) ==
    /\ ~crashed
    /\ obj = "alive"
    /\ pc[u] = <<>>
    /\ bstart' = m_thread
    /\ pc' = [pc EXCEPT ![u] = <<"clear", "spawn_lock">>]
    /\ UNCHANGED <<m_thread, m_mutex, obj, hasStop, m_fields, rflags,
                   m_invalid, m_error, handle, nworkers, budget, ptr, call,
                   ret, got, notes, errSeen, copy, built, crashed, peerVars>>

\* clear(): mutex_lock lock(m_mutex); m_services.clear();
BrowseStartClear(u) ==
    /\ ~crashed
    /\ Top(u) = "clear"
    /\ CanLock(u)
    /\ m_services' = <<>>
    /\ pc' = Return(u)
    /\ UNCHANGED <<m_thread, m_mutex, obj, hasStop, m_fields, rflags,
                   m_invalid, m_error, handle, nworkers, budget, ptr, call,
                   ret, got, notes, errSeen, copy, built, bstart, crashed,
                   m_peers, self_discover, services, it, kt, lp, peers_out,
                   P0, S0, again, breply, bnotes, mode, m_register_active,
                   m_browse_active, spc, sret, rres, bres, psess, rcall,
                   m_this, rhost, rnote, nm>>

\* bonjour_browse::reply run by worker w under the lock that
\* callback_type::reply took, which is released when it returns
BrowseHandler(w, add, x) ==
    /\ ~crashed
    /\ Top(w) = "reply_body"
    /\ m_services' = Replied(add, x, m_services)
    /\ breply' = [add |-> add, id |-> x, seq |-> 1 - breply.seq]
    /\ bnotes' = Noted(bnotes, IF add THEN "added" ELSE "removed")
    /\ m_mutex' = 0
    /\ pc' = Return(w)
    /\ UNCHANGED <<m_thread, obj, hasStop, m_fields, rflags, m_invalid,
                   m_error, handle, nworkers, budget, ptr, call, ret, got,
                   notes, errSeen, copy, built, bstart, crashed, m_peers,
                   self_discover, services, it, kt, lp, peers_out, P0, S0,
                   again, mode, m_register_active, m_browse_active, spc,
                   sret, rres, bres, psess, rcall, m_this, rhost, rnote, nm>>

\* a browser that is started and stopped while one service comes and goes
NextBrowse ==
    \/ \E u \in Users : CallBrowseStart(u) \/ CallStop(u)
    \/ \E u \in Users : BrowseStartClear(u)
    \/ \E u \in Users : SpawnLock(u) \/ SpawnActive(u) \/ SpawnStarted(u)
    \/ \E u \in Users : SpawnFailed(u) \/ SpawnRet(u)
    \/ \E t \in Threads : StopStep(t)
    \/ \E w \in Workers : WorkerExit(w) \/ WorkerWaitError(w)
    \/ \E w \in Workers : WorkerTimeout(w) \/ WorkerProcess(w)
    \/ \E w \in Workers : AdapterReply(w) \/ WorkerProcessed(w)
    \/ \E w \in Workers : ReplyLock(w) \/ NotifyStop(w)
    \/ \E w \in Workers, add \in BOOLEAN : BrowseHandler(w, add, IdB)

SpecBrowse == Init /\ [][NextBrowse]_vars

(* ---------------------------------------------------------------------- *)
(* bonjour_peer::start and bonjour_peer::stop                              *)
(* ---------------------------------------------------------------------- *)
Answer(b) == IF b THEN "true" ELSE "false"

\* start(): switch (m_options.m_mode)
PeerStart ==
    /\ ~crashed
    /\ spc = "idle"
    /\ lp = "idle"
    /\ spc' = IF mode = "browse_only" THEN "browse_clear" ELSE "register"
    /\ sret' = "none"
    /\ rres' = "none"
    /\ bres' = "none"
    /\ UNCHANGED <<m_services, m_peers, self_discover, services, it, kt, lp,
                   peers_out, P0, S0, again, breply, bnotes, mode,
                   m_register_active, m_browse_active, psess, rcall, m_this,
                   rhost, rnote, nm, crashed, sessOnly>>

\* faulty variant of the default case: m_browse.start() is called whatever
\* m_register.start() answered
RegisterStartAlways(ok) ==
    /\ ~crashed
    /\ spc = "register"
    /\ m_register_active' = (m_register_active \/ ok)
    /\ rres' = Answer(m_register_active')
    /\ IF mode = "both"
         THEN /\ spc' = "browse_clear"
              /\ sret' = sret
         ELSE /\ spc' = "return"
              /\ sret' = rres'
    /\ UNCHANGED <<m_services, m_peers, self_discover, services, it, kt, lp,
                   peers_out, P0, S0, again, breply, bnotes, mode,
                   m_browse_active, bres, psess, rcall, m_this, rhost, rnote,
                   nm, crashed, sessOnly>>

\* m_register.start(): spawn() answers true for a session that is active
\* or that the facility starts (ok), false otherwise; register_only
\* returns the answer, both goes on to m_browse.start() only after true
RegisterStart(ok) ==
    /\ ~crashed
    /\ spc = "register"
    /\ m_register_active' = (m_register_active \/ ok)
    /\ rres' = Answer(m_register_active')
    /\ IF mode = "both" /\ m_register_active'
         THEN /\ spc' = "browse_clear"
              /\ sret' = sret
         ELSE /\ spc' = "return"
              /\ sret' = rres'
    /\ UNCHANGED <<m_services, m_peers, self_discover, services, it, kt, lp,
                   peers_out, P0, S0, again, breply, bnotes, mode,
                   m_browse_active, bres, psess, rcall, m_this, rhost, rnote,
                   nm, crashed, sessOnly>>

\* m_browse.start(): clear();
PeerBrowseClear ==
    /\ ~crashed
    /\ spc = "browse_clear"
    /\ m_services' = <<>>
    /\ spc' = "browse"
    /\ UNCHANGED <<m_peers, self_discover, services, it, kt, lp, peers_out,
                   P0, S0, again, breply, bnotes, mode, m_register_active,
                   m_browse_active, sret, rres, bres, psess, rcall, m_this,
                   rhost, rnote, nm, crashed, sessOnly>>

\* faulty variant of the default case: the advertiser is stopped again
\* when m_browse.start() fails
PeerBrowseStartRollback(ok) ==
    /\ ~crashed
    /\ spc = "browse"
    /\ m_browse_active' = (m_browse_active \/ ok)
    /\ m_register_active' = (m_register_active /\ m_browse_active')
    /\ bres' = Answer(m_browse_active')
    /\ sret' = bres'
    /\ spc' = "return"
    /\ UNCHANGED <<m_services, m_peers, self_discover, services, it, kt, lp,
                   peers_out, P0, S0, again, breply, bnotes, mode, rres,
                   psess, rcall, m_this, rhost, rnote, nm, crashed, sessOnly>>

\* m_browse.start(): return spawn(...); its answer is the one of start()
PeerBrowseStart(ok) ==
    /\ ~crashed
    /\ spc = "browse"
    /\ m_browse_active' = (m_browse_active \/ ok)
    /\ bres' = Answer(m_browse_active')
    /\ sret' = bres'
    /\ spc' = "return"
    /\ UNCHANGED <<m_services, m_peers, self_discover, services, it, kt, lp,
                   peers_out, P0, S0, again, breply, bnotes, mode,
                   m_register_active, rres, psess, rcall, m_this, rhost,
                   rnote, nm, crashed, sessOnly>>

\* start() returns sret to its caller
PeerStartReturn ==
    /\ ~crashed
    /\ spc = "return"
    /\ spc' = "idle"
    /\ UNCHANGED <<m_services, m_peers, self_discover, services, it, kt, lp,
                   peers_out, P0, S0, again, breply, bnotes, mode,
                   m_register_active, m_browse_active, sret, rres, bres,
                   psess, rcall, m_this, rhost, rnote, nm, crashed, sessOnly>>

\* faulty variant of stop(): the maintained peers are dropped as well
PeerStopDrop ==
    /\ ~crashed
    /\ spc = "idle"
    /\ lp = "idle"
    /\ m_register_active' = FALSE
    /\ m_peers' = <<>>
    /\ psess' = <<>>
    /\ spc' = "stop_browse"
    /\ UNCHANGED <<m_services, self_discover, services, it, kt, lp,
                   peers_out, P0, S0, again, breply, bnotes, mode,
                   m_browse_active, sret, rres, bres, rcall, m_this, rhost,
                   rnote, nm, crashed, sessOnly>>

\* stop(): m_register.stop();
PeerStop ==
    /\ ~crashed
    /\ spc = "idle"
    /\ lp = "idle"
    /\ m_register_active' = FALSE
    /\ spc' = "stop_browse"
    /\ UNCHANGED <<m_services, m_peers, self_discover, services, it, kt, lp,
                   peers_out, P0, S0, again, breply, bnotes, mode,
                   m_browse_active, sret, rres, bres, psess, rcall, m_this,
                   rhost, rnote, nm, crashed, sessOnly>>

\* faulty variant of the second half of stop(): the browser's list is
\* cleared with its session
PeerStopBrowseClears ==
    /\ ~crashed
    /\ spc = "stop_browse"
    /\ m_browse_active' = FALSE
    /\ m_services' = <<>>
    /\ spc' = "idle"
    /\ UNCHANGED <<m_peers, self_discover, services, it, kt, lp, peers_out,
                   P0, S0, again, breply, bnotes, mode, m_register_active,
                   sret, rres, bres, psess, rcall, m_this, rhost, rnote, nm,
                   crashed, sessOnly>>

\* stop(): m_browse.stop();
PeerStopBrowse ==
    /\ ~crashed
    /\ spc = "stop_browse"
    /\ m_browse_active' = FALSE
    /\ spc' = "idle"
    /\ UNCHANGED <<m_services, m_peers, self_discover, services, it, kt, lp,
                   peers_out, P0, S0, again, breply, bnotes, mode,
                   m_register_active, sret, rres, bres, psess, rcall, m_this,
                   rhost, rnote, nm, crashed, sessOnly>>

\* callback_type::reply of the advertiser gets an error code:
\* stop_notify() stops the session on its worker
RegisterError ==
    /\ ~crashed
    /\ m_register_active
    /\ m_register_active' = FALSE
    /\ UNCHANGED <<m_services, m_peers, self_discover, services, it, kt, lp,
                   peers_out, P0, S0, again, breply, bnotes, mode,
                   m_browse_active, spc, sret, rres, bres, psess, rcall,
                   m_this, rhost, rnote, nm, crashed, sessOnly>>

\* callback_type::reply of the browser gets an error code
BrowseError ==
    /\ ~crashed
    /\ m_browse_active
    /\ m_browse_active' = FALSE
    /\ UNCHANGED <<m_services, m_peers, self_discover, services, it, kt, lp,
                   peers_out, P0, S0, again, breply, bnotes, mode,
                   m_register_active, spc, sret, rres, bres, psess, rcall,
                   m_this, rhost, rnote, nm, crashed, sessOnly>>

\* callback_type::reply of the active browser gets a reply without error
PeerBrowseReply(add, x) ==
    /\ m_browse_active
    /\ BrowseReply(add, x)

\* a peer of any mode that is started and stopped while its sessions run
InitStart ==
    /\ PeerInit
    /\ SessInit
    /\ hasStop = FALSE
    /\ self_discover = FALSE

NextStart ==
    \/ PeerStart
    \/ \E ok \in BOOLEAN : RegisterStart(ok)
    \/ PeerBrowseClear
    \/ \E ok \in BOOLEAN : PeerBrowseStart(ok)
    \/ PeerStartReturn
    \/ PeerStop
    \/ PeerStopBrowse
    \/ RegisterError
    \/ BrowseError
    \/ \E add \in BOOLEAN : PeerBrowseReply(add, IdB)

SpecStart == InitStart /\ [][NextStart]_vars

(* ---------------------------------------------------------------------- *)
(* a resolver whose old and new worker both deliver replies                *)
(* ---------------------------------------------------------------------- *)
InitOrder ==
    /\ SessInitWith("alive", MaxOrdered)
    /\ PeerInit
    /\ self_discover = FALSE
    /\ mode = "both"
    /\ hasStop = FALSE

NextOrder ==
    \/ \E u \in Users : CallStart(u) \/ CallStop(u)
    \/ \E u \in Users : SpawnLock(u) \/ SpawnActive(u) \/ SpawnStarted(u)
    \/ \E u \in Users : SpawnFailed(u) \/ SpawnRet(u)
    \/ \E t \in Threads : StopStep(t)
    \/ \E w \in Workers : WorkerExit(w) \/ WorkerWaitError(w)
    \/ \E w \in Workers : WorkerTimeout(w) \/ WorkerProcess(w)
    \/ \E w \in Workers : AdapterReply(w) \/ WorkerProcessed(w)
    \/ \E w \in Workers : ReplyLock(w) \/ ServiceReply(w)
    \/ \E w \in Workers : ServiceReplyEnd(w) \/ NotifyStop(w)

SpecOrder == InitOrder /\ [][NextOrder]_vars

(* ---------------------------------------------------------------------- *)
(* bonjour_peer::resolve() and bonjour_peer::resolve(service)              *)
(* ---------------------------------------------------------------------- *)
\* the lists without two equal identities
IdLists ==
    {l \in UNION {[1..n -> Identities] : n \in 0..Cardinality(Names)} :
       \A i, j \in 1..Len(l) : Equal(l[i], l[j]) => i = j}

\* bonjour_service::resolve() on a peer's session: spawn() leaves an active
\* session alone and otherwise calls the primitive, which succeeds (ok) or
\* fails
Resolved(p, ok) ==
    [p EXCEPT !.active = p.active \/ ok, !.resolves = p.resolves + 1]

\* faulty variant of resolve(service): every peer is resolved when one
\* matches
PeerResolveNamedAll(x, ok) ==
    /\ ~crashed
    /\ lp = "idle"
    /\ spc = "idle"
    /\ \A i \in 1..Len(psess) : psess[i].resolves < MaxResolves
    /\ rcall' = [arg |-> x, seq |-> 1 - rcall.seq]
    /\ psess' = IF Find(x, [i \in 1..Len(m_peers) |-> m_peers[i].id])
                     <= Len(m_peers)
                  THEN [i \in 1..Len(psess) |-> Resolved(psess[i], ok)]
                  ELSE psess
    /\ UNCHANGED <<m_services, m_peers, self_discover, services, it, kt, lp,
                   peers_out, P0, S0, again, breply, bnotes, mode,
                   m_register_active, m_browse_active, spc, sret, rres, bres,
                   m_this, rhost, rnote, nm, crashed, sessOnly>>

\* resolve(service): lock m_mutex; it = service.find(m_peers);
\* if (it != m_peers.end()) it->resolve();
PeerResolveNamed(x, ok) ==
    /\ ~crashed
    /\ lp = "idle"
    /\ spc = "idle"
    /\ \A i \in 1..Len(psess) : psess[i].resolves < MaxResolves
    /\ rcall' = [arg |-> x, seq |-> 1 - rcall.seq]
    /\ LET at == Find(x, [i \in 1..Len(m_peers) |-> m_peers[i].id]) IN
         psess' = IF at <= Len(m_peers)
                    THEN [psess EXCEPT ![at] = Resolved(@, ok)]
                    ELSE psess
    /\ UNCHANGED <<m_services, m_peers, self_discover, services, it, kt, lp,
                   peers_out, P0, S0, again, breply, bnotes, mode,
                   m_register_active, m_browse_active, spc, sret, rres, bres,
                   m_this, rhost, rnote, nm, crashed, sessOnly>>

\* resolve(): lock m_mutex; it->resolve() for every element of m_peers
PeerResolve(ok) ==
    /\ ~crashed
    /\ lp = "idle"
    /\ spc = "idle"
    /\ m_peers # <<>>
    /\ \A i \in 1..Len(psess) : psess[i].resolves < MaxResolves
    /\ psess' = [i \in 1..Len(psess) |-> Resolved(psess[i], ok)]
    /\ UNCHANGED <<m_services, m_peers, self_discover, services, it, kt, lp,
                   peers_out, P0, S0, again, breply, bnotes, mode,
                   m_register_active, m_browse_active, spc, sret, rres, bres,
                   rcall, m_this, rhost, rnote, nm, crashed, sessOnly>>

\* the session of peer i stops itself: bonjour_service::reply calls stop(),
\* and so does callback_type::reply on an error code
PeerSessionStops(i) ==
    /\ ~crashed
    /\ i \in 1..Len(psess)
    /\ psess[i].active
    /\ psess' = [psess EXCEPT ![i].active = FALSE]
    /\ UNCHANGED <<m_services, m_peers, self_discover, services, it, kt, lp,
                   peers_out, P0, S0, again, breply, bnotes, mode,
                   m_register_active, m_browse_active, spc, sret, rres, bres,
                   rcall, m_this, rhost, rnote, nm, crashed, sessOnly>>

\* a coordinator after some calls of list_peers: its peers were built by
\* emplace_back, which resolves, so each session is active or not
InitResolve ==
    /\ \E S \in {l \in IdLists : Len(l) <= 1}, P \in IdLists :
         \E A \in [1..Len(P) -> [active : BOOLEAN, resolves : {0}, host : {0}]] :
           PeerInitWith(S, [i \in 1..Len(P) |-> MakePeer(P[i])], A)
    /\ SelfInit
    /\ SessInit
    /\ hasStop = FALSE
    /\ self_discover = TRUE
    /\ mode = "both"

NextResolve ==
    \/ \E x \in Identities, ok \in BOOLEAN : PeerResolveNamed(x, ok)
    \/ \E ok \in BOOLEAN : PeerResolve(ok)
    \/ \E i \in 1..Cardinality(Names) : PeerSessionStops(i)

SpecResolve == InitResolve /\ [][NextResolve]_vars

(* ---------------------------------------------------------------------- *)
(* bonjour_peer as a whole: start, stop, clear, resolve, list_peers,       *)
(* resolved_host, called by one thread, one call at a time                 *)
(* ---------------------------------------------------------------------- *)
\* the host name a resolve reply carries
Hosts == {1}

\* clear(): m_browse.clear(); by the caller, between its other calls
PeerClear ==
    /\ lp = "idle"
    /\ spc = "idle"
    /\ BrowseClear

\* list_peers(peers) by the caller, between its other calls
PeerListPeers ==
    /\ spc = "idle"
    /\ ListPeersEnter

\* bonjour_service::reply of m_this_service: m_host is stored and the
\* session stops itself; its worker is still inside the processing step
\* and may be handed further replies
SelfReply(h) ==
    /\ ~crashed
    /\ m_this.active \/ m_this.open
    /\ m_this' = [m_this EXCEPT !.active = FALSE, !.open = TRUE,
                                 !.host = h,
                                 !.first = IF @ = 0 THEN h ELSE @]
    /\ UNCHANGED <<m_services, m_peers, self_discover, services, it, kt, lp,
                   peers_out, P0, S0, again, breply, bnotes, mode,
                   m_register_active, m_browse_active, spc, sret, rres, bres,
                   psess, rcall, rhost, rnote, nm, crashed, sessOnly>>

\* the worker of m_this_service leaves the processing step
SelfProcessed ==
    /\ ~crashed
    /\ m_this.open
    /\ m_this' = [m_this EXCEPT !.open = FALSE]
    /\ UNCHANGED <<m_services, m_peers, self_discover, services, it, kt, lp,
                   peers_out, P0, S0, again, breply, bnotes, mode,
                   m_register_active, m_browse_active, spc, sret, rres, bres,
                   psess, rcall, rhost, rnote, nm, crashed, sessOnly>>

\* resolved_host(): return m_this_service.host();
ResolvedHost ==
    /\ ~crashed
    /\ lp = "idle"
    /\ spc = "idle"
    /\ m_this.ctor = 2
    /\ rhost' = m_this.host
    /\ UNCHANGED <<m_services, m_peers, self_discover, services, it, kt, lp,
                   peers_out, P0, S0, again, breply, bnotes, mode,
                   m_register_active, m_browse_active, spc, sret, rres, bres,
                   psess, rcall, m_this, rnote, nm, crashed, sessOnly>>

\* the constructor has run: m_this_service was built from m_register and
\* resolve() was called on it, with or without success of the primitive
InitCoord ==
    /\ PeerInitWith(<<>>, <<>>, <<>>)
    /\ m_this \in {[SelfIdle EXCEPT !.active = a, !.tries = 1] :
                    a \in BOOLEAN}
    /\ rhost = -1
    /\ SessInit
    /\ hasStop = FALSE
    /\ self_discover = FALSE

NextCoord ==
    \/ PeerStart
    \/ \E ok \in BOOLEAN : RegisterStart(ok)
    \/ PeerBrowseClear
    \/ \E ok \in BOOLEAN : PeerBrowseStart(ok)
    \/ PeerStartReturn
    \/ PeerStop
    \/ PeerStopBrowse
    \/ RegisterError
    \/ BrowseError
    \/ \E add \in BOOLEAN : PeerBrowseReply(add, IdB)
    \/ PeerClear
    \/ \E x \in {IdB, IdC}, ok \in BOOLEAN : PeerResolveNamed(x, ok)
    \/ \E ok \in BOOLEAN : PeerResolve(ok)
    \/ \E i \in 1..Cardinality(Names) : PeerSessionStops(i)
    \/ \E h \in Hosts : SelfReply(h)
    \/ SelfProcessed
    \/ ResolvedHost
    \/ PeerListPeers
    \/ ListPeersScan
    \/ ListPeersScanFirst
    \/ ListPeersInc
    \/ ListPeersScanEnd
    \/ \E ok \in BOOLEAN : ListPeersAdd(ok)
    \/ ListPeersAddEnd
    \/ ListPeersReturn

SpecCoord == InitCoord /\ [][NextCoord]_vars

(* ---------------------------------------------------------------------- *)
(* a copy of the session: bonjour_service(const bonjour_service&),         *)
(* operator=, and what is done with the copy                               *)
(* ---------------------------------------------------------------------- *)
\* the worker that a resolve() on the copy starts for the copy
OwnWorker == MaxHandles + 1

\* stop() on the copy: if (active()) m_thread->stop(), whatever worker the
\* copy's m_thread designates
SignalFrom(c) ==
    IF c.m_thread \in Workers
      THEN [m_invalid EXCEPT ![c.m_thread] = TRUE]
      ELSE m_invalid

\* faulty variant of the copy constructor: the worker reference is copied
\* with the other members
CopyConstructShallow(u) ==
    /\ ~crashed
    /\ obj = "alive"
    /\ pc[u] = <<>>
    /\ m_mutex = 0
    /\ ~copy.made
    /\ copy' = [made |-> TRUE, m_thread |-> m_thread, fields |-> m_fields,
                last |-> "copy"]
    /\ UNCHANGED <<m_thread, m_mutex, obj, hasStop, m_fields, rflags,
                   m_invalid, m_error, handle, nworkers, budget, pc, ptr,
                   call, ret, got, notes, errSeen, built, bstart, crashed,
                   peerVars>>

\* bonjour_service(rhs): bonjour_named("", "", "") gives m_thread(nullptr);
\* *this = rhs locks both objects, stops the new one and copies the fields
CopyConstruct(u) ==
    /\ ~crashed
    /\ obj = "alive"
    /\ pc[u] = <<>>
    /\ m_mutex = 0
    /\ ~copy.made
    /\ copy' = [made |-> TRUE, m_thread |-> 0, fields |-> m_fields,
                last |-> "copy"]
    /\ UNCHANGED <<m_thread, m_mutex, obj, hasStop, m_fields, rflags,
                   m_invalid, m_error, handle, nworkers, budget, pc, ptr,
                   call, ret, got, notes, errSeen, built, bstart, crashed,
                   peerVars>>

\* copy = session: lock both, stop() on the copy, copy the fields
CopyAssign(u) ==
    /\ ~crashed
    /\ obj = "alive"
    /\ pc[u] = <<>>
    /\ m_mutex = 0
    /\ copy.made
    /\ m_invalid' = SignalFrom(copy)
    /\ copy' = [made |-> TRUE, m_thread |-> 0, fields |-> m_fields,
                last |-> "assign"]
    /\ UNCHANGED <<m_thread, m_mutex, obj, hasStop, m_fields, rflags,
                   m_error, handle, nworkers, budget, pc, ptr, call, ret,
                   got, notes, errSeen, built, bstart, crashed, peerVars>>

\* copy.resolve(): spawn() on the copy starts a worker of its own unless
\* the copy is active or the primitive fails
CopyResolve(u, ok) ==
    /\ ~crashed
    /\ pc[u] = <<>>
    /\ copy.made
    /\ copy' = [copy EXCEPT !.m_thread = IF @ = 0 /\ ok THEN OwnWorker ELSE @,
                            !.last = "resolve"]
    /\ UNCHANGED <<m_thread, m_mutex, obj, hasStop, m_fields, rflags,
                   m_invalid, m_error, handle, nworkers, budget, pc, ptr,
                   call, ret, got, notes, errSeen, built, bstart, crashed,
                   peerVars>>

\* copy.stop()
CopyStop(u) ==
    /\ ~crashed
    /\ pc[u] = <<>>
    /\ copy.made
    /\ m_invalid' = SignalFrom(copy)
    /\ copy' = [copy EXCEPT !.m_thread = 0, !.last = "stop"]
    /\ UNCHANGED <<m_thread, m_mutex, obj, hasStop, m_fields, rflags,
                   m_error, handle, nworkers, budget, pc, ptr, call, ret,
                   got, notes, errSeen, built, bstart, crashed, peerVars>>

\* the copy is destroyed: ~bonjour_base calls stop()
CopyDestroy(u) ==
    /\ ~crashed
    /\ pc[u] = <<>>
    /\ copy.made
    /\ m_invalid' = SignalFrom(copy)
    /\ copy' = [NoCopy EXCEPT !.last = "destroy"]
    /\ UNCHANGED <<m_thread, m_mutex, obj, hasStop, m_fields, rflags,
                   m_error, handle, nworkers, budget, pc, ptr, call, ret,
                   got, notes, errSeen, built, bstart, crashed, peerVars>>

\* a resolver that is started and stopped while copies of it are made,
\* assigned to, resolved, stopped and destroyed
InitCopy ==
    /\ SessInit
    /\ PeerInit
    /\ self_discover = FALSE
    /\ mode = "both"
    /\ hasStop = FALSE

NextCopy ==
    \/ \E u \in Users : CallStart(u) \/ CallStop(u)
    \/ \E u \in Users : CopyConstruct(u) \/ CopyAssign(u)
    \/ \E u \in Users : CopyStop(u) \/ CopyDestroy(u)
    \/ \E u \in Users, ok \in BOOLEAN : CopyResolve(u, ok)
    \/ \E u \in Users : SpawnLock(u) \/ SpawnActive(u) \/ SpawnStarted(u)
    \/ \E u \in Users : SpawnFailed(u) \/ SpawnRet(u)
    \/ \E t \in Threads : StopStep(t)
    \/ \E w \in Workers : WorkerExit(w) \/ WorkerWaitError(w)
    \/ \E w \in Workers : WorkerTimeout(w) \/ WorkerProcess(w)
    \/ \E w \in Workers : AdapterReply(w) \/ WorkerProcessed(w)
    \/ \E w \in Workers : ReplyLock(w) \/ ServiceReply(w)
    \/ \E w \in Workers : ServiceReplyEnd(w) \/ NotifyStop(w)

SpecCopy == InitCopy /\ [][NextCopy]_vars

(* ---------------------------------------------------------------------- *)
(* bonjour_register::reply                                                 *)
(* ---------------------------------------------------------------------- *)
\* DNSServiceFlags: kDNSServiceFlagsMoreComing = 0x1, kDNSServiceFlagsAdd =
\* 0x2, and one more bit (kDNSServiceFlagsDefault = 0x4) that reply ignores
FlagsMoreComing == 1
FlagsAdd == 2
FlagsAll == 0..7

\* flags & bit, for a bit that is a power of two
Masked(flags, bit) == ((flags \div bit) % 2) * bit

\* faulty variant of reply: complete is the more-coming bit itself
RegisterReplyInverted(flags, x) ==
    /\ ~crashed
    /\ m_register_active
    /\ rnote' = [flags |-> flags, id |-> x,
                 kind |-> IF Masked(flags, FlagsAdd) # 0
                            THEN "added" ELSE "removed",
                 told |-> x,
                 complete |-> (Masked(flags, FlagsMoreComing) # 0),
                 count |-> 1, seq |-> 1 - rnote.seq]
    /\ UNCHANGED <<m_services, m_peers, self_discover, services, it, kt, lp,
                   peers_out, P0, S0, again, breply, bnotes, mode,
                   m_register_active, m_browse_active, spc, sret, rres, bres,
                   psess, rcall, m_this, rhost, nm, crashed, sessOnly>>

\* reply(flags, name, regtype, domain) of the active advertiser:
\* complete = (flags & kDNSServiceFlagsMoreComing) == 0;
\* notify(m_add, ...) if (flags & kDNSServiceFlagsAdd), else
\* notify(m_remove, ...)
RegisterReply(flags, x) ==
    /\ ~crashed
    /\ m_register_active
    /\ rnote' = [flags |-> flags, id |-> x,
                 kind |-> IF Masked(flags, FlagsAdd) # 0
                            THEN "added" ELSE "removed",
                 told |-> x,
                 complete |-> (Masked(flags, FlagsMoreComing) = 0),
                 count |-> 1, seq |-> 1 - rnote.seq]
    /\ UNCHANGED <<m_services, m_peers, self_discover, services, it, kt, lp,
                   peers_out, P0, S0, again, breply, bnotes, mode,
                   m_register_active, m_browse_active, spc, sret, rres, bres,
                   psess, rcall, m_this, rhost, nm, crashed, sessOnly>>

\* the coordinator's start and stop with the replies of its advertiser,
\* which carry the registered name or the name chosen after a conflict
NextAdvertise ==
    \/ NextStart
    \/ \E flags \in FlagsAll, x \in {IdA, IdB} : RegisterReply(flags, x)

SpecAdvertise == InitStart /\ [][NextAdvertise]_vars

(* ---------------------------------------------------------------------- *)
(* the constructors of bonjour_service                                     *)
(* ---------------------------------------------------------------------- *)
\* faulty variant of the constructor: resolve() is called whatever the name
CtorEmptyResolves(u) ==
    /\ ~crashed
    /\ obj = "raw"
    /\ pc[u] = <<>>
    /\ obj' = "alive"
    /\ built' = "empty"
    /\ pc' = [pc EXCEPT ![u] = <<"spawn_lock", "ctor">>]
    /\ UNCHANGED <<m_thread, m_mutex, hasStop, m_fields, rflags, m_invalid,
                   m_error, handle, nworkers, budget, ptr, call, ret, got,
                   notes, errSeen, copy, bstart, crashed, peerVars>>

\* bonjour_service(named, notify) and bonjour_service(name, regtype, domain,
\* notify) with a name that is not empty: if (strlen(name())) resolve();
CtorNamed(u) ==
    /\ ~crashed
    /\ obj = "raw"
    /\ pc[u] = <<>>
    /\ obj' = "alive"
    /\ built' = "named"
    /\ pc' = [pc EXCEPT ![u] = <<"spawn_lock", "ctor">>]
    /\ UNCHANGED <<m_thread, m_mutex, hasStop, m_fields, rflags, m_invalid,
                   m_error, handle, nworkers, budget, ptr, call, ret, got,
                   notes, errSeen, copy, bstart, crashed, peerVars>>

\* the same constructors with an empty name: strlen(name()) is 0
CtorEmpty(u) ==
    /\ ~crashed
    /\ obj = "raw"
    /\ pc[u] = <<>>
    /\ obj' = "alive"
    /\ built' = "empty"
    /\ pc' = [pc EXCEPT ![u] = <<"ctor">>]
    /\ UNCHANGED <<m_thread, m_mutex, hasStop, m_fields, rflags, m_invalid,
                   m_error, handle, nworkers, budget, ptr, call, ret, got,
                   notes, errSeen, copy, bstart, crashed, peerVars>>

\* bonjour_service(rhs): bonjour_named("", "", "") { *this = rhs; }
CtorCopy(u) ==
    /\ ~crashed
    /\ obj = "raw"
    /\ pc[u] = <<>>
    /\ obj' = "alive"
    /\ built' = "copy"
    /\ pc' = [pc EXCEPT ![u] = <<"asg_lock", "ctor">>]
    /\ UNCHANGED <<m_thread, m_mutex, hasStop, m_fields, rflags, m_invalid,
                   m_error, handle, nworkers, budget, ptr, call, ret, got,
                   notes, errSeen, copy, bstart, crashed, peerVars>>

\* the constructor returns
CtorEnd(u) ==
    /\ ~crashed
    /\ Top(u) = "ctor"
    /\ pc' = Return(u)
    /\ UNCHANGED <<m_thread, m_mutex, obj, hasStop, m_fields, rflags,
                   m_invalid, m_error, handle, nworkers, budget, ptr, call,
                   ret, got, notes, errSeen, copy, built, bstart, crashed,
                   peerVars>>

\* a resolver from its construction on
InitCtor ==
    /\ SessInitWith("raw", MaxReplies)
    /\ PeerInit
    /\ self_discover = FALSE
    /\ mode = "both"
    /\ hasStop = FALSE

NextCtor ==
    \/ \E u \in Users : CtorNamed(u) \/ CtorEmpty(u) \/ CtorCopy(u)
    \/ \E u \in Users : CtorEnd(u)
    \/ \E u \in Users : AssignLock(u) \/ AssignCopy(u)
    \/ \E u \in Users : CallStart(u) \/ CallStop(u)
    \/ \E u \in Users : SpawnLock(u) \/ SpawnActive(u) \/ SpawnStarted(u)
    \/ \E u \in Users : SpawnFailed(u) \/ SpawnRet(u)
    \/ \E t \in Threads : StopStep(t)
    \/ \E w \in Workers : WorkerExit(w) \/ WorkerWaitError(w)
    \/ \E w \in Workers : WorkerTimeout(w) \/ WorkerProcess(w)
    \/ \E w \in Workers : AdapterReply(w) \/ WorkerProcessed(w)
    \/ \E w \in Workers : ReplyLock(w) \/ ServiceReply(w)
    \/ \E w \in Workers : ServiceReplyEnd(w) \/ NotifyStop(w)

SpecCtor == InitCtor /\ [][NextCtor]_vars

(* ---------------------------------------------------------------------- *)
(* the constructor of bonjour_peer and its self resolver                   *)
(* ---------------------------------------------------------------------- *)
\* the host names the replies of the self resolution carry
SelfHosts == {1, 2}

\* m_this_service before the constructor of the coordinator
SelfRaw == [SelfIdle EXCEPT !.ctor = 0]

\* the member initialiser m_this_service(m_register): the constructor of
\* bonjour_service resolves when the name is not empty
PeerCtorMember(named, ok) ==
    /\ ~crashed
    /\ m_this.ctor = 0
    /\ m_this' = [m_this EXCEPT !.ctor = 1,
                                 !.active = named /\ ok,
                                 !.tries = IF named THEN 1 ELSE 0]
    /\ UNCHANGED <<m_services, m_peers, self_discover, services, it, kt, lp,
                   peers_out, P0, S0, again, breply, bnotes, mode,
                   m_register_active, m_browse_active, spc, sret, rres, bres,
                   psess, rcall, rhost, rnote, nm, crashed, sessOnly>>

\* the body of the constructor: m_this_service.resolve(), that is spawn(),
\* which calls the primitive unless the session of the initialiser is
\* still active
PeerCtorBody(ok) ==
    /\ ~crashed
    /\ m_this.ctor = 1
    /\ m_this' = IF m_this.active
                   THEN [m_this EXCEPT !.ctor = 2]
                   ELSE [m_this EXCEPT !.ctor = 2,
                                       !.active = ok,
                                       !.tries = @ + 1]
    /\ UNCHANGED <<m_services, m_peers, self_discover, services, it, kt, lp,
                   peers_out, P0, S0, again, breply, bnotes, mode,
                   m_register_active, m_browse_active, spc, sret, rres, bres,
                   psess, rcall, rhost, rnote, nm, crashed, sessOnly>>

InitSelf ==
    /\ PeerInitWith(<<>>, <<>>, <<>>)
    /\ m_this = SelfRaw
    /\ rhost = -1
    /\ SessInit
    /\ hasStop = FALSE
    /\ self_discover = FALSE

NextSelf ==
    \/ \E named \in BOOLEAN, ok \in BOOLEAN : PeerCtorMember(named, ok)
    \/ \E ok \in BOOLEAN : PeerCtorBody(ok)
    \/ \E h \in SelfHosts : SelfReply(h)
    \/ SelfProcessed
    \/ ResolvedHost

SpecSelf == InitSelf /\ [][NextSelf]_vars

(* ---------------------------------------------------------------------- *)
(* bonjour_named objects: construction, equal, find                        *)
(* ---------------------------------------------------------------------- *)
\* bonjour_named a(name, regtype, domain); the object a had becomes b
NamedConstruct(name, regtype, domain) ==
    /\ ~crashed
    /\ nm' = [nm EXCEPT !.a = Construct(name, regtype, domain),
                         !.arga = [name |-> name, regtype |-> regtype,
                                   domain |-> domain],
                         !.b = nm.a,
                         !.argb = nm.arga,
                         !.eq = "none", !.qe = "none", !.pos = -1]
    /\ UNCHANGED <<m_services, m_peers, self_discover, services, it, kt, lp,
                   peers_out, P0, S0, again, breply, bnotes, mode,
                   m_register_active, m_browse_active, spc, sret, rres, bres,
                   psess, rcall, m_this, rhost, rnote, crashed, sessOnly>>

\* a.equal(b) and b.equal(a)
NamedEqual ==
    /\ ~crashed
    /\ nm.arga # NoArgs
    /\ nm.argb # NoArgs
    /\ nm' = [nm EXCEPT !.eq = IF EqualNamed(nm.a, nm.b) THEN "yes" ELSE "no",
                         !.qe = IF EqualNamed(nm.b, nm.a) THEN "yes" ELSE "no"]
    /\ UNCHANGED <<m_services, m_peers, self_discover, services, it, kt, lp,
                   peers_out, P0, S0, again, breply, bnotes, mode,
                   m_register_active, m_browse_active, spc, sret, rres, bres,
                   psess, rcall, m_this, rhost, rnote, crashed, sessOnly>>

\* list.push_back(a)
NamedPush ==
    /\ ~crashed
    /\ nm.arga # NoArgs
    /\ Len(nm.list) < MaxList
    /\ nm' = [nm EXCEPT !.list = Append(@, nm.a), !.pos = -1]
    /\ UNCHANGED <<m_services, m_peers, self_discover, services, it, kt, lp,
                   peers_out, P0, S0, again, breply, bnotes, mode,
                   m_register_active, m_browse_active, spc, sret, rres, bres,
                   psess, rcall, m_this, rhost, rnote, crashed, sessOnly>>

\* a.find(list)
NamedFind ==
    /\ ~crashed
    /\ nm.arga # NoArgs
    /\ nm' = [nm EXCEPT !.pos = FindNamed(nm.a, nm.list)]
    /\ UNCHANGED <<m_services, m_peers, self_discover, services, it, kt, lp,
                   peers_out, P0, S0, again, breply, bnotes, mode,
                   m_register_active, m_browse_active, spc, sret, rres, bres,
                   psess, rcall, m_this, rhost, rnote, crashed, sessOnly>>

InitNamed ==
    /\ PeerInit
    /\ SessInit
    /\ hasStop = FALSE
    /\ self_discover = FALSE
    /\ mode = "both"

NextNamed ==
    \/ \E name \in NameArgs, regtype \in RegtypeArgs, domain \in DomainArgs :
         NamedConstruct(name, regtype, domain)
    \/ NamedEqual
    \/ NamedPush
    \/ NamedFind

SpecNamed == InitNamed /\ [][NextNamed]_vars

(* ---------------------------------------------------------------------- *)
(* the sessions of the peers across calls of list_peers                    *)
(* ---------------------------------------------------------------------- *)
\* bonjour_service::reply of peer i: m_fullname, m_host and m_port are
\* stored and the session stops itself
PeerSessionReply(i, h) ==
    /\ ~crashed
    /\ i \in 1..Len(psess)
    /\ psess[i].active
    /\ psess' = [psess EXCEPT ![i].active = FALSE, ![i].host = h]
    /\ UNCHANGED <<m_services, m_peers, self_discover, services, it, kt, lp,
                   peers_out, P0, S0, again, breply, bnotes, mode,
                   m_register_active, m_browse_active, spc, sret, rres, bres,
                   rcall, m_this, rhost, rnote, nm, crashed, sessOnly>>

InitRetain ==
    /\ PeerInit
    /\ SessInit
    /\ hasStop = FALSE
    /\ self_discover = FALSE
    /\ mode = "both"

NextRetain ==
    \/ \E add \in BOOLEAN : BrowseReply(add, IdB)
    \/ \E add \in BOOLEAN : BrowseReply(add, IdC)
    \/ ListPeersEnter
    \/ ListPeersScan
    \/ ListPeersScanFirst
    \/ ListPeersInc
    \/ ListPeersScanEnd
    \/ \E ok \in BOOLEAN : ListPeersAdd(ok)
    \/ ListPeersAddEnd
    \/ ListPeersReturn
    \/ \E i \in 1..Cardinality(Names), h \in Hosts : PeerSessionReply(i, h)
    \/ \E i \in 1..Cardinality(Names) : PeerSessionStops(i)

SpecRetain == InitRetain /\ [][NextRetain]_vars

TypeOK ==
    /\ m_thread \in 0..MaxHandles
    /\ m_mutex \in {0} \cup Threads
    /\ nworkers \in 0..MaxHandles
    /\ budget \in 0..(MaxReplies + MaxOrdered)

(* ====================================================================== *)
(* Claims                                                                  *)
(* ====================================================================== *)
\* thread t takes a step
Moves(t) == pc'[t] # pc[t]

\* the peers of P whose identity occurs in S, in the order of P
Retained(P, S) ==
    SelectSeq(P, LAMBDA p : \E i \in 1..Len(S) : Equal(S[i], p.id))

\* the entries of S that match no peer of P (without the own identity
\* unless self_discover), in the order of S
Fresh(P, S) ==
    SelectSeq(S, LAMBDA x : /\ \A i \in 1..Len(P) : ~Equal(P[i].id, x)
                            /\ (self_discover \/ ~Equal(x, Own)))

Reconciled(P, S) ==
    Retained(P, S) \o [i \in 1..Len(Fresh(P, S)) |-> [id |-> Fresh(P, S)[i]]]

\* C1 as claimed: a call of list_peers runs to its end, and the maintained
\* sequence then is the peers it had at entry whose identity is in the
\* snapshot, in their previous order, followed by the snapshot entries that
\* matched no peer, in snapshot order, without the own identity unless
\* self_discover.
C1_Reconciliation ==
    /\ lp # "idle" => ~crashed
    /\ lp = "copy" => m_peers = Reconciled(P0, S0)

\* C1, the case of the claim's example where the call does run to its end:
\* maintained {A,B}, snapshot {B,C}, result {B,C}
C1_Witness ==
    /\ lp = "copy"
    /\ P0 = <<[id |-> IdA], [id |-> IdB]>>
    /\ S0 = <<IdB, IdC>>
    /\ m_peers = <<[id |-> IdB], [id |-> IdC]>>

\* C2: a spawn whose primitive failed raises no notification, spawns no
\* worker, leaves m_thread null, has called the primitive once and
\* returns false.
C2_FailedStart ==
    [][\A u \in Users :
         (call[u].prim = "fail" /\ Moves(u)) =>
            /\ notes' = notes
            /\ nworkers' = call[u].nw0
            /\ m_invalid' = m_invalid
            /\ m_thread' = 0
            /\ (Top(u) = "spawn_ret" =>
                  ret'[u] = FALSE /\ call[u].nprim = 1)]_vars

\* C2 witness: a failed start is about to return on a session that had
\* been started before
C2_Witness ==
    \E u \in Users :
        /\ Top(u) = "spawn_ret"
        /\ call[u].prim = "fail"
        /\ nworkers > 0

C5_NoReplyAfterError ==
    ~(errSeen /\ \E w \in Workers : Top(w) = "reply_body")

\* C6 as claimed: a thread that signals the worker (m_thread->stop()) does
\* not hold the session's lock
C6_SignalUnlocked ==
    \A t \in Threads : Top(t) \in {"stop_load", "stop_sig"} => m_mutex # t

\* a thread waits for the session's lock, held by another thread
WaitsForSession(t) ==
    /\ Top(t) \in {"stop_chk", "stop_clr", "reply_lock", "spawn_lock",
                   "asg_lock", "active"}
    /\ m_mutex \notin {0, t}

\* a thread waits for the lock of worker w, held by w
WaitsForWorker(t, w) ==
    /\ Top(t) = "stop_sig"
    /\ ptr[t] = w
    /\ w # t
    /\ Live(w)
    /\ InLoopBody(w)

\* C7 as claimed: no thread waits for a worker's lock while it holds the
\* session lock that this worker waits for
C7_NoDeadlock ==
    \A t \in Threads, w \in Workers :
        ~(WaitsForWorker(t, w) /\ m_mutex = t /\ WaitsForSession(w))

\* C8 as claimed: a worker that was signalled leaves its loop,
\* deallocates its handle and terminates
C8_SignalledWorkerEnds ==
    \A w \in Workers : m_invalid[w] ~> (Gone(w) \/ crashed)

\* C9: a handle is deallocated at most once, by its own worker, which
\* then is gone; no wait or processing step follows the deallocation; a
\* worker that is gone has deallocated its handle.
C9_HandleLifetime ==
    \A w \in Workers :
        /\ handle[w].deallocs <= 1
        /\ ~handle[w].late
        /\ (handle[w].state = "none") = ~Born(w)
        /\ (handle[w].state = "closed") = (handle[w].deallocs = 1)
        /\ (handle[w].deallocs = 1 => handle[w].by = w)
        /\ (Born(w) /\ Gone(w)) = (handle[w].state = "closed")

\* C9 witness: a worker has deallocated its handle and is gone while a
\* later worker is polling its own
C9_Witness ==
    /\ handle[1].state = "closed"
    /\ handle[1].by = 1
    /\ Gone(1)
    /\ handle[2].state = "open"

\* C10 as claimed: after a failed wait or a failed processing step the
\* session is stopped and the registered stop notification has fired
C10_ErrorStops ==
    \A w \in Workers :
        (m_error[w] /\ pc[w] = <<"wait">>) =>
            /\ m_thread # w
            /\ (hasStop => notes.stop > 0)

\* identity x occurs in the list
Has(list, x) == \E i \in 1..Len(list) : Equal(list[i], x)

\* C11: a browse reply with identity x appends x at the end of the list
\* when the add flag is set and x is absent, removes x when the flag is
\* clear and x is present, and leaves the list as it is otherwise; in all
\* four cases it raises one notification, 'added' when the flag is set and
\* 'removed' when it is clear.
C11_BrowseReply ==
    [][breply' # breply =>
         LET x == breply'.id
             add == breply'.add
         IN /\ m_services' =
                 IF add /\ ~Has(m_services, x)
                   THEN m_services \o <<x>>
                   ELSE IF ~add /\ Has(m_services, x)
                     THEN SelectSeq(m_services, LAMBDA y : ~Equal(y, x))
                     ELSE m_services
            /\ bnotes' = Noted(bnotes, IF add THEN "added" ELSE "removed")]_vars

\* C11 witness: the list went from [b] to [] by a remove reply for b, the
\* last two notifications being 'added' then 'removed'
C11_Witness ==
    /\ m_services = <<>>
    /\ breply.id = IdB
    /\ ~breply.add
    /\ bnotes = <<"added", "removed">>

\* C12: neither the browser's discovered list nor the maintained peer
\* sequence holds two entries with equal identity.
C12_NoDuplicates ==
    /\ \A i, j \in 1..Len(m_services) :
         Equal(m_services[i], m_services[j]) => i = j
    /\ \A i, j \in 1..Len(m_peers) :
         Equal(m_peers[i].id, m_peers[j].id) => i = j
    /\ \A i, j \in 1..Len(peers_out) :
         Equal(peers_out[i].id, peers_out[j].id) => i = j

\* C12 witness: an add reply for b arrived while b was in the list (b is
\* not the last entry), and two peers are maintained
C12_Witness ==
    /\ m_services = <<IdB, IdC>>
    /\ breply.add
    /\ breply.id = IdB
    /\ Len(m_peers) = 2

\* C17: without self_discover no maintained or returned peer has the own
\* identity; with self_discover the own identity is a peer when list_peers
\* has run its loops, and in the list it returned, whenever the snapshot
\* held it.
C17_SelfFilter ==
    /\ ~self_discover =>
         /\ \A i \in 1..Len(m_peers) : ~Equal(m_peers[i].id, Own)
         /\ \A i \in 1..Len(peers_out) : ~Equal(peers_out[i].id, Own)
    /\ (self_discover /\ Has(S0, Own)) =>
         /\ lp = "copy" => \E i \in 1..Len(m_peers) : Equal(m_peers[i].id, Own)
         /\ (lp = "idle" /\ again # "never") =>
              \E i \in 1..Len(peers_out) : Equal(peers_out[i].id, Own)

\* C17 witness: the snapshot held the own identity and b, self_discover is
\* off, and list_peers ends with b alone
C17_Witness ==
    /\ ~self_discover
    /\ lp = "copy"
    /\ S0 = <<Own, IdB>>
    /\ P0 = <<>>
    /\ m_peers = <<[id |-> IdB]>>

\* C18: a call of list_peers whose snapshot equals the snapshot of the call
\* before it drops no peer, appends none and never leaves the bounds of the
\* sequence: all along, the maintained sequence is the one the call before
\* returned, and that is what the call returns.
C18_Idempotent ==
    (again = "same" /\ lp # "idle") =>
        /\ ~crashed
        /\ m_peers = P0
        /\ m_peers = peers_out

\* C18 witness: a second call with the same snapshot {b, own, c} has run
\* its loops; the peers are b and c as before (the own identity is skipped
\* again)
C18_Witness ==
    /\ again = "same"
    /\ lp = "copy"
    /\ ~self_discover
    /\ S0 = <<IdB, Own, IdC>>
    /\ peers_out = <<[id |-> IdB], [id |-> IdC]>>
    /\ m_peers = peers_out

\* C20: stop() called on an idle session returns with the session idle,
\* having signalled no worker, touched no handle and raised no
\* notification; so does a stop() that follows a stop().
C20_StopIdle ==
    [][\A u \in Users :
         (pc[u] = <<"stop_chk">> /\ m_thread = 0 /\ Moves(u)) =>
            /\ pc'[u] = <<>>
            /\ m_thread' = 0
            /\ m_invalid' = m_invalid
            /\ handle' = handle
            /\ ptr' = ptr
            /\ notes' = notes]_vars

\* C20 witness: stop() is called again on a session whose worker an
\* earlier stop has signalled and which has not been started since
C20_Witness ==
    \E u \in Users :
        /\ pc[u] = <<"stop_chk">>
        /\ m_thread = 0
        /\ nworkers = 1
        /\ Live(1)
        /\ m_invalid[1]
        /\ ~errSeen
        /\ notes.resolve = 0

\* worker w is inside the stop() that bonjour_service::reply calls
InReplyStop(w) ==
    /\ Len(pc[w]) >= 2
    /\ pc[w][2] = "reply_end"
    /\ pc[w][1] \in {"stop_chk", "stop_load", "stop_sig", "stop_clr"}

\* C14: the reply handler of a resolver first stores the three values, then
\* runs stop(), during which the values stay and nothing is notified, then
\* raises 'resolved' once, with complete exactly when the reply's
\* more-coming flag is clear; when it raises it the session is idle and the
\* fields hold the values of this reply.
C14_ResolverReply ==
    [][\A w \in Workers :
         Moves(w) =>
            /\ Top(w) = "reply_body" =>
                 /\ m_fields' = [fullname |-> w, host |-> w, port |-> w]
                 /\ notes' = notes
                 /\ InReplyStop(w)'
            /\ InReplyStop(w) =>
                 /\ m_fields' = m_fields
                 /\ notes' = notes
            /\ Top(w) = "reply_end" =>
                 /\ m_thread = 0
                 /\ m_fields = [fullname |-> w, host |-> w, port |-> w]
                 /\ notes'.resolve = notes.resolve + 1
                 /\ (notes'.complete = "yes") = (rflags[w] = "last")
                 /\ (notes'.complete = "no") = (rflags[w] = "more")
                 /\ m_thread' = 0
                 /\ m_fields' = m_fields]_vars

\* C14 witness: the handler of an active resolver's worker has stored the
\* values of a reply with more-coming set, has stopped the session and is
\* about to raise 'resolved'
C14_Witness ==
    \E w \in Workers :
        /\ Top(w) = "reply_end"
        /\ rflags[w] = "more"
        /\ m_invalid[w]
        /\ m_thread = 0
        /\ m_fields.host = w

\* C15 as claimed: the reply handler runs at most once for a handle: while
\* one handle only has been created, 'resolved' has been raised at most
\* once
C15_OneShot ==
    nworkers = 1 => notes.resolve <= 1

\* C16 as claimed: the three values a caller has read by fullname(), host()
\* and port() come from one reply, or all three from the initial state
C16_WholeTriple ==
    \A u \in Users :
        got[u].port # -1 =>
            /\ got[u].fullname = got[u].host
            /\ got[u].host = got[u].port

\* C13 as claimed: when start() creates the handle of a new browse cycle
\* the list holds no entry of an earlier cycle, and a reply of an earlier
\* handle no longer adds or removes an entry
C13_NewCycleOnly ==
    [][/\ nworkers' # nworkers => m_services' = <<>>
       /\ \A w \in Workers :
            (Top(w) = "reply_body" /\ Moves(w) /\ w # nworkers)
              => m_services' = m_services]_vars

\* start() hands its answer to the caller
StartReturns == spc = "return" /\ spc' = "idle"

\* C19, amended: start() calls only m_browse.start() in browse_only mode and
\* only m_register.start() in register_only mode and returns that call's
\* answer; in combined mode it calls m_register.start(), calls
\* m_browse.start() only if that answered true, and returns true if and only
\* if both calls answered true; each call answers true if and only if its
\* session is active when the call returns
C19_StartByMode ==
    [][/\ StartReturns =>
            /\ mode = "browse_only" =>
                 rres = "none" /\ bres # "none" /\ sret = bres
            /\ mode = "register_only" =>
                 rres # "none" /\ bres = "none" /\ sret = rres
            /\ mode = "both" =>
                 /\ rres # "none"
                 /\ bres # "none" <=> rres = "true"
                 /\ sret = "true" <=> (rres = "true" /\ bres = "true")
       /\ (rres' # rres /\ rres' # "none") =>
            (rres' = "true" <=> m_register_active')
       /\ (bres' # bres /\ bres' # "none") =>
            (bres' = "true" <=> m_browse_active')]_vars

\* a combined start() is about to return true although an error reply has
\* stopped the advertiser since m_register.start() answered true
C19_Witness ==
    /\ mode = "both"
    /\ spc = "return"
    /\ sret = "true"
    /\ rres = "true"
    /\ bres = "true"
    /\ ~m_register_active

\* C19 as claimed: only the browser is started in browse_only mode, only the
\* advertiser in register_only mode, and a combined start() returns true if
\* and only if both sessions are active when it returns
C19_ActiveOnReturn ==
    [][StartReturns =>
         /\ mode = "browse_only" => rres = "none" /\ bres # "none"
         /\ mode = "register_only" => rres # "none" /\ bres = "none"
         /\ mode = "both" =>
              /\ rres # "none"
              /\ sret = "true" <=>
                   (m_register_active /\ m_browse_active)]_vars

\* the frames of stop() on top of the stop notification of an error reply
StopFrames == {"stop_chk", "stop_load", "stop_sig", "stop_clr"}

\* C21, amended: an error reply never reaches the typed reply handler;
\* stop() has returned with the session idle before the stop notification
\* is invoked; the notification is raised once if a stop callback is
\* registered and not at all otherwise, and changes nothing else
C21_ErrorReply ==
    [][\A w \in Workers :
         /\ (pc[w] = <<"proc">> /\ Moves(w) /\ errSeen' /\ ~errSeen) =>
              pc'[w] = <<"stop_chk", "notify_stop", "proc">>
         /\ (Len(pc'[w]) > 1 /\ pc'[w][2] = "notify_stop") =>
              pc'[w][1] \in StopFrames
         /\ (Top(w) # "notify_stop" /\ pc'[w] # <<>>
               /\ Head(pc'[w]) = "notify_stop") =>
              m_thread' = 0
         /\ (Top(w) = "notify_stop" /\ Moves(w)) =>
              /\ notes'.stop = notes.stop + (IF hasStop THEN 1 ELSE 0)
              /\ m_thread' = m_thread]_vars

\* an error reply has stopped the session and raised the registered stop
\* notification
C21_Witness ==
    /\ errSeen
    /\ hasStop
    /\ notes.stop = 1
    /\ m_thread = 0
    /\ \A w \in Workers : Top(w) # "notify_stop"

\* C21 as claimed: the session is idle when the stop notification of an
\* error reply runs
C21_IdleWhenNotified ==
    [][\A w \in Workers :
         (Top(w) = "notify_stop" /\ Moves(w)) => m_thread = 0]_vars

\* worker w is inside the typed reply handler of the session
HandlerRuns(w) ==
    \E i \in 1..Len(pc[w]) : pc[w][i] \in {"reply_body", "reply_end"}

\* positions at which a thread is about to take the session's lock
LockFrames == {"stop_chk", "stop_clr", "active", "rd_fullname", "rd_host",
               "rd_port", "spawn_lock", "asg_lock", "clear", "reply_lock"}

\* positions at which a thread holds the session's lock across steps
HoldFrames == {"spawn_body", "spawn_ret", "asg_copy"}

\* C22: while the typed reply handler runs on worker w, w owns the session
\* lock, no other thread is inside or enters a lock-guarded operation of
\* the session, and the lock-guarded operations the handler calls itself
\* (active() and the handle-clearing step of its stop()) can take the lock
C22_HandlerHoldsLock ==
    [][\A w \in Workers :
         HandlerRuns(w) =>
           /\ m_mutex = w
           /\ \A t \in Threads \ {w} :
                /\ \A i \in 1..Len(pc[t]) : pc[t][i] \notin HoldFrames
                /\ ~HandlerRuns(t)
                /\ Top(t) \in LockFrames => ~Moves(t)
           /\ Top(w) \in LockFrames => CanLock(w)]_vars

\* the handler is at the handle-clearing step of its own stop() while the
\* caller waits at an accessor
C22_Witness ==
    \E w \in Workers :
        /\ HandlerRuns(w)
        /\ Top(w) = "stop_clr"
        /\ Top(101) = "rd_host"

\* the frames of the typed reply handler that worker w has open
OpenHandlers(w) ==
    Cardinality({i \in 1..Len(pc[w]) :
                   pc[w][i] \in {"reply_lock", "reply_body", "reply_end"}})

\* C23: two workers of the session are never inside the typed reply
\* handler at once, also when the second was started after a stop; a
\* worker is handed the next reply only after the handling of the one
\* before has returned, so it handles its replies in the order of delivery
C23_OneAtATime ==
    [][/\ \A v, w \in Workers :
            (v # w /\ HandlerRuns(v)) => ~HandlerRuns(w)
       /\ \A w \in Workers :
            /\ OpenHandlers(w) <= 1
            /\ (budget' # budget /\ Moves(w)) =>
                 (pc[w] = <<"proc">> /\ OpenHandlers(w) = 0)]_vars

\* the worker of the stopped cycle is inside the handler while the worker
\* of the new cycle waits with a reply of its own
C23_Witness ==
    /\ HandlerRuns(1)
    /\ Top(2) = "reply_lock"
    /\ m_thread = 2

\* the identities of the maintained peers, in order
PeerIds == [i \in 1..Len(m_peers) |-> m_peers[i].id]

\* C24: resolve(service) calls resolve() on the first maintained peer whose
\* identity equals the argument and on no other peer; without such a peer
\* it changes nothing, also when the browser's list holds the identity
C24_ResolveNamed ==
    [][rcall' # rcall =>
         /\ m_peers' = m_peers
         /\ m_services' = m_services
         /\ Len(psess') = Len(psess)
         /\ \A i \in 1..Len(psess) :
              IF /\ Equal(m_peers[i].id, rcall'.arg)
                 /\ \A j \in 1..(i - 1) : ~Equal(m_peers[j].id, rcall'.arg)
                THEN psess'[i].resolves = psess[i].resolves + 1
                ELSE psess'[i] = psess[i]]_vars

\* resolve(b) was called with b second among the peers: b's session was
\* resolved once, the other peer's never; c's session is the idle one
C24_Witness ==
    /\ PeerIds = <<IdC, IdB>>
    /\ rcall.arg = IdB
    /\ rcall.seq = 1
    /\ psess[2].resolves = 1
    /\ psess[1].resolves = 0
    /\ ~psess[1].active

\* resolve(c) was called while c is in the browser's list and not yet a
\* peer: nothing was resolved
C24_WitnessMiss ==
    /\ PeerIds = <<IdB>>
    /\ m_services = <<IdC>>
    /\ rcall.arg = IdC
    /\ psess[1].resolves = 0

\* C25: the maintained peers change only in the two loops of list_peers;
\* start(), stop(), clear(), resolve(), resolve(service), resolved_host()
\* and the replies of the browser, the advertiser and the resolvers leave
\* their membership and order as they are
C25_PeersFrame ==
    [][m_peers' # m_peers => lp \in {"scan", "add"}]_vars

\* b is a maintained peer after the coordinator was started, b was found
\* and listed, the list was cleared, the coordinator stopped, b resolved
\* again and the own host read
C25_Witness ==
    /\ PeerIds = <<IdB>>
    /\ lp = "idle"
    /\ spc = "idle"
    /\ sret = "true"
    /\ m_services = <<>>
    /\ bnotes = <<"added">>
    /\ ~m_browse_active
    /\ ~m_register_active
    /\ psess[1].resolves = 2
    /\ rhost = 1

\* C26: the copy never holds a reference to a worker of the session it was
\* copied from; it is idle when it was made or assigned to; and nothing
\* done with the copy signals a worker of the original, changes the
\* original's worker reference or touches a handle
C26_NoSharedWorker ==
    [][/\ copy.m_thread \notin Workers
       /\ copy' # copy =>
            /\ m_invalid' = m_invalid
            /\ m_thread' = m_thread
            /\ handle' = handle
            /\ copy'.last \in {"copy", "assign"} => copy'.m_thread = 0]_vars

\* the copy of an active session was stopped: the original is active and
\* its worker runs unsignalled
C26_Witness ==
    /\ copy.made
    /\ copy.last = "stop"
    /\ m_thread = 1
    /\ Live(1)
    /\ ~m_invalid[1]

\* C27: a reply of the advertiser raises one notification, 'added' when
\* the add flag is set and 'removed' otherwise, with the reply's name,
\* type and domain and with complete true exactly when the more-coming bit
\* is clear; nothing of the advertiser or of the coordinator changes
C27_AdvertiserReply ==
    [][rnote' # rnote =>
         /\ rnote'.count = 1
         /\ rnote'.kind = (IF rnote'.flags \in {2, 3, 6, 7}
                             THEN "added" ELSE "removed")
         /\ rnote'.complete = (rnote'.flags \in {0, 2, 4, 6})
         /\ rnote'.told = rnote'.id
         /\ m_register_active' = m_register_active
         /\ UNCHANGED <<m_browse_active, m_services, m_peers, psess, spc,
                        sret, rres, bres, mode>>]_vars

\* the advertiser was told that its service was added, with more to come
C27_Witness ==
    /\ rnote.flags = 3
    /\ rnote.kind = "added"
    /\ ~rnote.complete
    /\ rnote.told = IdA
    /\ m_register_active

\* caller u is inside a constructor of the session
InCtor(u) == pc[u] # <<>> /\ pc[u][Len(pc[u])] = "ctor"

\* C28: the constructor from an identity or strings with a name calls the
\* primitive once, and the session is active when its resolve() returns
\* after a success of the primitive; the constructor with an empty name
\* and the copy constructor never reach spawn, create no handle and leave
\* the session idle
C28_Construction ==
    [][\A u \in Users :
         /\ (InCtor(u) /\ Top(u) = "spawn_ret" /\ Moves(u)) =>
              /\ built = "named"
              /\ call[u].nprim = 1
              /\ call[u].prim = "ok" => (m_thread' # 0 /\ ret'[u])
         /\ (InCtor(u) /\ built \in {"empty", "copy"}) =>
              /\ \A i \in 1..Len(pc[u]) :
                   pc[u][i] \notin {"spawn_lock", "spawn_body", "spawn_ret"}
              /\ m_thread = 0
              /\ nworkers = 0
         /\ (built' = "named" /\ built = "no") =>
              pc'[u] = <<"spawn_lock", "ctor">>]_vars

\* the constructor with a name is about to return: the primitive has
\* succeeded and the session is active
C28_Witness ==
    /\ built = "named"
    /\ pc[101] = <<"ctor">>
    /\ m_thread = 1
    /\ handle[1].state = "open"

\* the copy constructor is about to return: no handle, no worker
C28_WitnessCopy ==
    /\ built = "copy"
    /\ pc[101] = <<"ctor">>
    /\ m_thread = 0
    /\ nworkers = 0

\* C29: the constructor of the coordinator calls resolve() on the self
\* resolver in every mode; resolved_host() returns the empty string until
\* the self resolver has handled a reply, and from then on the host of
\* that reply
C29_SelfResolution ==
    [][/\ (m_this.ctor = 1 /\ m_this'.ctor = 2) =>
            m_this'.tries >= 1
       /\ rhost' # rhost =>
            rhost' = m_this.first]_vars

\* the parts of C29 that the code keeps: the constructor resolves in every
\* mode, and resolved_host() is empty exactly until a reply was handled
C29_SelfResolutionKept ==
    [][/\ (m_this.ctor = 1 /\ m_this'.ctor = 2) =>
            m_this'.tries >= 1
       /\ rhost' # rhost =>
            (rhost' = 0) = (m_this.first = 0)]_vars

\* resolved_host() has returned the host of a second reply
C29_Witness ==
    /\ m_this.ctor = 2
    /\ m_this.first = 1
    /\ rhost = 2

\* C30: when stop() of the coordinator returns, the advertiser and the
\* browser are idle in every mode; the two steps of stop() leave the
\* browser's list, the peers, their sessions and the self resolver as they
\* were; clear() empties the browser's list and changes the active state
\* of no session
C30_StopAndClear ==
    [][/\ (spc = "stop_browse" /\ spc' = "idle") =>
            (~m_register_active' /\ ~m_browse_active')
       /\ (spc' # spc /\ "stop_browse" \in {spc, spc'}) =>
            UNCHANGED <<m_services, m_peers, psess, m_this>>
       /\ PeerClear =>
            /\ m_services' = <<>>
            /\ UNCHANGED <<m_register_active, m_browse_active, psess,
                           m_this, m_peers>>]_vars

\* stop() is between its two calls on a coordinator that browses and
\* advertises, with a discovered service, a peer with an active session
\* and an active self resolver
C30_Witness ==
    /\ spc = "stop_browse"
    /\ m_browse_active
    /\ m_services # <<>>
    /\ m_peers # <<>>
    /\ psess[1].active
    /\ m_this.active

\* clear() is about to run on a list that is not empty while the browser,
\* the advertiser and a peer's session are active
C30_WitnessClear ==
    /\ ENABLED PeerClear
    /\ m_services # <<>>
    /\ m_browse_active
    /\ m_register_active
    /\ m_peers # <<>>
    /\ psess[1].active

\* the frames of spawn()
SpawnFrames == {"spawn_lock", "spawn_body", "spawn_ret"}

\* C31: the session becomes active only at the step of a caller's spawn()
\* whose primitive succeeded, and idle only at the last step of a stop();
\* a worker is never replaced without the session being idle in between,
\* and no worker ever runs spawn(), so that after an error reply only a
\* call of the caller makes the session active again
C31_Transitions ==
    [][/\ (m_thread = 0 /\ m_thread' # 0) =>
            \E u \in Users :
              /\ Top(u) = "spawn_body"
              /\ Moves(u)
              /\ call'[u].prim = "ok"
       /\ (m_thread # 0 /\ m_thread' # m_thread) =>
            /\ m_thread' = 0
            /\ \E t \in Threads : Top(t) = "stop_clr" /\ Moves(t)
       /\ \A w \in Workers : \A i \in 1..Len(pc[w]) :
            pc[w][i] \notin SpawnFrames]_vars

\* after an error reply made the session idle, the caller is inside a
\* start call that is about to call the primitive
C31_Witness ==
    /\ errSeen
    /\ m_thread = 0
    /\ nworkers = 1
    /\ handle[1].state # "open"
    /\ pc[101] = <<"spawn_body">>

\* C32: equal returns true exactly when name, regtype and domain are the
\* same strings, letter case included; it is symmetric; find returns the
\* first element of the list equal to the object, or the end of the list
C32_EqualFind ==
    /\ nm.eq # "none" =>
         /\ (nm.eq = "yes") = (/\ nm.a.name = nm.b.name
                               /\ nm.a.regtype = nm.b.regtype
                               /\ nm.a.domain = nm.b.domain)
         /\ nm.qe = nm.eq
    /\ nm.pos # -1 =>
         IF \E i \in 1..Len(nm.list) : nm.list[i] = nm.a
           THEN /\ nm.pos \in 1..Len(nm.list)
                /\ nm.list[nm.pos] = nm.a
                /\ \A j \in 1..(nm.pos - 1) : nm.list[j] # nm.a
           ELSE nm.pos = Len(nm.list) + 1

\* equal has returned false for two objects that differ in the case of
\* one letter of the name only, and find has passed over the first element
\* of the list and returned the second
C32_Witness ==
    /\ nm.eq = "no"
    /\ nm.a.name = <<97>>
    /\ nm.b.name = <<65>>
    /\ nm.a.regtype = nm.b.regtype
    /\ nm.a.domain = nm.b.domain
    /\ nm.pos = 2
    /\ Len(nm.list) = 2

\* C33: an object built with a null or empty domain stores "local."; a
\* domain that is not empty, the name and the regtype are stored as they
\* were passed; so an object built with a null or empty domain equals the
\* one built with "local." and the same name and regtype
C33_DomainDefault ==
    /\ nm.arga # NoArgs =>
         /\ nm.a.domain = IF nm.arga.domain \in {NullPtr, <<>>}
                            THEN LocalDot ELSE nm.arga.domain
         /\ nm.a.name = nm.arga.name
         /\ nm.a.regtype = nm.arga.regtype
    /\ (/\ nm.eq # "none"
        /\ nm.arga.name = nm.argb.name
        /\ nm.arga.regtype = nm.argb.regtype
        /\ nm.arga.domain \in {NullPtr, <<>>}
        /\ nm.argb.domain = LocalDot) => nm.eq = "yes"

\* equal has returned true for an object built with a null domain and one
\* built with "local."
C33_Witness ==
    /\ nm.eq = "yes"
    /\ nm.arga.domain = NullPtr
    /\ nm.argb.domain = LocalDot
    /\ nm.a.domain = LocalDot

\* the same with the empty string as domain, and a domain that differs
\* from "local." in the case of a letter is kept and makes the objects
\* unequal
C33_WitnessEmpty ==
    /\ nm.arga.domain = <<>>
    /\ nm.a.domain = LocalDot
    /\ nm.argb.domain = LocalCap
    /\ nm.b.domain = LocalCap
    /\ nm.arga.name = nm.argb.name
    /\ nm.arga.regtype = nm.argb.regtype
    /\ nm.eq = "no"

\* C34: a thread that is about to signal a worker through the pointer it
\* read from m_thread holds a pointer that is not null and designates a
\* worker that has not deleted itself
C34_SignalTargetLive ==
    \A t \in Threads : Top(t) = "stop_sig" => Live(ptr[t])

\* the caller's stop() has read a null m_thread after active() returned
\* true: the worker's own reply path cleared it in between
C34_WitnessNull ==
    /\ pc[101] = <<"stop_sig">>
    /\ ptr[101] = 0
    /\ ~crashed

\* a thread is about to signal a worker that has deleted itself
C34_WitnessGone ==
    \E t \in Threads :
      /\ Top(t) = "stop_sig"
      /\ ptr[t] # 0
      /\ Gone(ptr[t])
      /\ ~crashed

\* C35: inside the first loop of list_peers the cursor designates an
\* element of m_peers or its end, and is never moved before begin(); the
\* call does not die there
C35_CursorInRange ==
    lp \in {"scan", "inc"} => (~crashed /\ it \in 1..(Len(m_peers) + 1))

\* the first peer was erased and the cursor was decremented from begin():
\* on a list with a sentinel node it now designates no element
C35_Witness ==
    /\ lp = "inc"
    /\ it = 0
    /\ P0 # <<>>
    /\ Len(m_peers) = Len(P0) - 1
    /\ ~crashed

\* the same decrement with checked iterators: the process has aborted
\* inside the first loop
C35_WitnessAbort ==
    /\ lp = "scan"
    /\ it = 1
    /\ crashed
    /\ Len(m_peers) = Len(P0) - 1

\* C36: a thread other than the worker signals the worker only while the
\* worker is outside its loop body, that is waiting (or gone); a waiting
\* worker whose m_invalid is set does nothing but leave the loop, and a
\* worker that left stays gone: after such a signal the worker enters no
\* processing step, so no handler and no stop notification runs on it
C36_NoProcessingAfterStop ==
    [][\A w \in Workers :
         /\ (\E t \in Threads \ {w} :
               /\ Top(t) = "stop_sig"
               /\ ptr[t] = w
               /\ Moves(t)) =>
              /\ pc[w] \in {<<"wait">>, <<"gone">>}
              /\ pc[w] = <<"wait">> => m_invalid'[w]
         /\ (pc[w] = <<"wait">> /\ m_invalid[w] /\ Moves(w)) =>
              pc'[w] = <<"gone">>
         /\ pc[w] = <<"gone">> => pc'[w] = <<"gone">>]_vars

\* the caller's stop() has signalled the first worker, which had handled
\* no reply, while the facility has a reply pending for it
C36_Witness ==
    /\ pc[101] = <<"stop_clr">>
    /\ pc[1] = <<"wait">>
    /\ m_invalid[1]
    /\ budget > 0
    /\ notes.resolve = 0
    /\ ~errSeen

\* the caller's bonjour_browse::start() goes from clear() to spawn()
StartFrames == {"clear", "spawn_lock", "spawn_body", "spawn_ret"}

\* the frame part of C37: every start() runs clear(), which empties the
\* list; the list changes only by clear() and by the handler, and grows
\* only by the identity of an add reply
C37_ListFrame ==
    \A u \in Users :
      /\ (pc[u] = <<>> /\ pc'[u] # <<>> /\ Head(pc'[u]) \in StartFrames) =>
           pc'[u] = <<"clear", "spawn_lock">>
      /\ (Top(u) = "clear" /\ Moves(u)) => m_services' = <<>>
      /\ m_services' # m_services =>
           \/ Top(u) = "clear" /\ Moves(u)
           \/ \E w \in Workers :
                /\ Top(w) = "reply_body"
                /\ Moves(w)
                /\ m_services' = Replied(breply'.add, breply'.id, m_services)
      /\ Len(m_services') > Len(m_services) =>
           /\ breply'.add
           /\ m_services' = Append(m_services, breply'.id)

\* spawn() of caller u tests active() under the lock and goes on
SpawnTests(u) == Top(u) = "spawn_body" /\ Moves(u)

\* spawn() neither calls the primitive nor touches worker and handles
SameHandle(u) ==
    /\ call'[u].nprim = 0
    /\ UNCHANGED <<nworkers, m_thread, handle>>

\* C37, amended: start() empties the list on every call; when the session
\* is active at the moment spawn() tests it, the primitive is not called
\* and the same handle keeps browsing; the list holds only identities of
\* add replies handled after it was emptied
C37_StartClears ==
    [][/\ C37_ListFrame
       /\ \A u \in Users :
            (SpawnTests(u) /\ m_thread # 0) => SameHandle(u)]_vars

\* C37 as claimed: a start() entered on an active session does not call
\* the primitive and keeps the handle
C37_ActiveStartKeepsHandle ==
    [][/\ C37_ListFrame
       /\ \A u \in Users :
            (SpawnTests(u) /\ bstart # 0) => SameHandle(u)]_vars

\* start() was entered on an active browser whose list held a service; the
\* list was emptied, the active session was found by spawn() and left
\* alone, and a later add reply of the same handle is in the list
C37_Witness ==
    /\ bstart = 1
    /\ m_thread = 1
    /\ nworkers = 1
    /\ pc[101] = <<"spawn_ret">>
    /\ call[101].nprim = 0
    /\ call[101].entry = 1
    /\ m_services = <<IdB>>

\* start() was entered on an active browser, and spawn() has created a
\* second handle
C37_WitnessRestart ==
    /\ bstart = 1
    /\ m_thread = 2
    /\ pc[101] = <<"spawn_ret">>

\* C38: in combined mode start() calls m_register.start() first; when that
\* fails, start() goes straight to its return with false and leaves the
\* browser's session and list alone; when it succeeds and m_browse.start()
\* fails, start() returns false, and no step of start() after
\* m_register.start() changes the advertiser's session (no rollback)
C38_CombinedStart ==
    [][mode = "both" =>
         /\ (spc = "idle" /\ spc' # spc /\ spc' # "stop_browse") =>
              spc' = "register"
         /\ (spc = "register" /\ spc' # spc /\ ~m_register_active') =>
              /\ spc' = "return"
              /\ sret' = "false"
              /\ bres' = "none"
              /\ UNCHANGED <<m_services, m_browse_active>>
         /\ (spc = "browse" /\ spc' # spc /\ ~m_browse_active') =>
              /\ sret' = "false"
              /\ rres' = "true"
         /\ (spc \in {"browse_clear", "browse", "return"} /\ spc' # spc) =>
              m_register_active' = m_register_active
         /\ (StartReturns /\ rres = "false") =>
              (bres = "none" /\ sret = "false")
         /\ (StartReturns /\ bres = "false") =>
              (rres = "true" /\ sret = "false")]_vars

\* a combined start() is about to return false after the browser failed
\* to start, and the advertiser it started is active
C38_Witness ==
    /\ mode = "both"
    /\ spc = "return"
    /\ rres = "true"
    /\ bres = "false"
    /\ sret = "false"
    /\ m_register_active
    /\ ~m_browse_active

\* a combined start() is about to return false after the advertiser failed
\* to start; the browser was not called and its list still holds a service
C38_WitnessFirst ==
    /\ mode = "both"
    /\ spc = "return"
    /\ rres = "false"
    /\ bres = "none"
    /\ sret = "false"
    /\ m_services # <<>>

\* list_peers takes one of its steps
ListStep == lp' # lp \/ it' # it \/ kt' # kt

\* C39: a step of list_peers that appends a peer gives it a session whose
\* resolve() was called once and that holds no result yet; a step that
\* erases a peer takes exactly its session away; every other step, and so
\* every step on a peer that is retained, leaves the session and the
\* stored result of each peer as they were
C39_SessionsKept ==
    [][(ListStep /\ ~crashed') =>
         /\ Len(m_peers') = Len(psess')
         /\ Len(m_peers') > Len(m_peers) =>
              /\ lp = "add"
              /\ SubSeq(m_peers', 1, Len(m_peers)) = m_peers
              /\ SubSeq(psess', 1, Len(psess)) = psess
              /\ psess'[Len(psess')].resolves = 1
              /\ psess'[Len(psess')].host = 0
         /\ Len(m_peers') < Len(m_peers) =>
              /\ lp = "scan"
              /\ m_peers' = Erase(m_peers, it)
              /\ psess' = Erase(psess, it)
         /\ Len(m_peers') = Len(m_peers) =>
              (m_peers' = m_peers /\ psess' = psess)]_vars

\* a call of list_peers has retained the peers b and c; b became a peer
\* before c, but stands behind c in the browser's list: it was removed
\* from the list and added again while it was a peer; its session still
\* holds the result of its only resolve()
C39_Witness ==
    /\ lp = "copy"
    /\ P0 = <<MakePeer(IdB), MakePeer(IdC)>>
    /\ m_peers = P0
    /\ m_services = <<IdC, IdB>>
    /\ psess[1] = [active |-> FALSE, resolves |-> 1, host |-> 1]
    /\ psess[2].active

\* C40: once the destructor of a session has run (a peer dropped by
\* list_peers, or destroyed with the coordinator), no reply is delivered
\* to it: its workers wait, sit in a processing step without a reply, or
\* are gone, and the process has not died on the destroyed object
C40_DroppedPeerQuiet ==
    obj = "dead" =>
      /\ ~crashed
      /\ \A w \in Workers :
           pc[w] \in {<<>>, <<"wait">>, <<"proc">>, <<"gone">>}

\* the object is destroyed and a worker that had stopped the session from
\* its own handler is inside the adapter with a further reply for it
C40_Witness ==
    /\ obj = "dead"
    /\ ~crashed
    /\ \E w \in Workers :
         /\ InLoopBody(w)
         /\ Top(w) \in {"reply_lock", "stop_chk"}

\* the process has died on a reply delivered to the destroyed object
C40_WitnessAbort ==
    /\ obj = "dead"
    /\ crashed
    /\ \E w \in Workers : pc[w] = <<"proc">>

====
